---------------------------- MODULE Spec2Model ----------------------------
(***************************************************************************)
(* Verification model of gcli2api (multi-tenant credential proxy).         *)
(*                                                                         *)
(* The module holds several specifications over one set of variables:      *)
(*   Spec          credential pool + proxy request path                    *)
(*   SpecScenario  the A/B/C pool scenario                                 *)
(*   SpecIso       per-user credential namespaces                          *)
(*   SpecConc      interleaved storage operations on one credential name   *)
(*   SpecCache     debounced cache, MySQL row backend, shutdown, restart   *)
(*   SpecFlow      OAuth flow orchestrator and its callback listeners      *)
(*   SpecLogin     register, login and token checks (users, tokens)        *)
(*   SpecRoles, SpecAdmin, SpecDisable, SpecTokens                         *)
(*                 accounts: roles, admin endpoints, disabling, tokens     *)
(*   SpecRace      concurrent credential migrations                        *)
(*   SpecStats, SpecWindow                                                 *)
(*                 usage statistics: saving and the 24 hour window         *)
(*   SpecWs        log stream WebSockets and the ConnectionManager         *)
(* and further scenario specifications defined next to their actions.      *)
(* Each specification moves only its own variables; the others keep the    *)
(* value given by the corresponding *Idle predicate.                       *)
(***************************************************************************)
EXTENDS Integers, Sequences, FiniteSets, TLC

VARIABLES
    credentials_cm,   \* credentials cache manager: [keys, val, dirty]
    config_cm,        \* config cache manager:      [keys, val, dirty]
    current_index,    \* rotation pointer of the credential manager
    now,              \* wall clock (time.time()), in ticks
    response,         \* outcome of the last proxy request
    lastOp,           \* scenario driver: the call it made last
    owned,            \* per user: the stored names written by that user's requests
    conc_cache,       \* SpecConc: the credentials table, entries refer to state objects
    conc_heap,        \* SpecConc: the state dicts, by object identity
    conc_task,        \* SpecConc: per task its call, position and local entry
    conc_cm0,         \* SpecConc: the table the tasks started from
    db_rows,          \* unified_storage table: row key -> JSON document
    db_pool,          \* TRUE while the MySQL connection pool is open
    cache_sets,       \* per table: keys set by the running instance
    cache_log,        \* the last cache event and what it saw
    flow_ticks,       \* SpecFlow: the clock, in ticks
    auth_flows,       \* AuthService.auth_flows: the states, in insertion order
    flow_objs,        \* the flow dicts, by state
    servers,          \* the callback listeners, by the state they were started for
    next_id,          \* the next fresh state (uuid4)
    callers,          \* the running create_auth_url and complete_auth_flow calls
    flow_result,      \* scenario driver: what the last complete_auth_flow step returned
    users,            \* the users table, by username
    tokens,           \* the tokens table, in insertion order
    auth_resp,        \* the last answer of /auth/register, /auth/login or a token check
    stats_cache,      \* UsageStats._stats_cache: key -> call timestamps
    cache_dirty,      \* UsageStats._cache_dirty
    last_save_time,   \* UsageStats._last_save_time
    stats_log,        \* the last UsageStats call and what it did
    active_connections,   \* ConnectionManager.active_connections, oldest first
    sockets           \* per WebSocket: the position of its handler and its client_state

poolVars == <<credentials_cm, config_cm, current_index, now, response, lastOp>>
isoVars == <<owned>>
concVars == <<conc_cache, conc_heap, conc_task, conc_cm0>>

cacheVars == <<db_rows, db_pool, cache_sets, cache_log>>

flowVars == <<flow_ticks, auth_flows, flow_objs, servers, next_id, callers, flow_result>>

userVars == <<users, tokens, auth_resp>>

statsVars == <<stats_cache, cache_dirty, last_save_time, stats_log>>

wsVars == <<active_connections, sockets>>

vars == <<poolVars, isoVars, concVars, cacheVars, flowVars, userVars, statsVars, wsVars>>

\* what the handlers of each part leave alone
notPool == <<isoVars, concVars, cacheVars, flowVars, userVars, statsVars, wsVars>>
notIso == <<concVars, cacheVars, flowVars, userVars, statsVars, wsVars>>
notConc == <<poolVars, isoVars, cacheVars, flowVars, userVars, statsVars, wsVars>>
notCache == <<current_index, now, response, lastOp, isoVars, concVars, flowVars, userVars,
              statsVars, wsVars>>
notFlow == <<config_cm, current_index, now, response, lastOp, isoVars, concVars, cacheVars,
             userVars, statsVars, wsVars>>
notUser == <<poolVars, isoVars, concVars, cacheVars, flowVars, statsVars, wsVars>>
notStats == <<config_cm, current_index, response, lastOp, isoVars, concVars, cacheVars,
              flowVars, userVars, wsVars>>
notWs == <<poolVars, isoVars, concVars, cacheVars, flowVars, userVars, statsVars>>

(***************************************************************************)
(* Bounds of the model.                                                    *)
(***************************************************************************)
MaxTime == 1          \* the clock runs 0..MaxTime
MaxCalls == 2         \* the scenario driver counts served selections up to here
MaxStarts == 3        \* create_auth_url calls that start a listener
MaxFlowTicks == 1     \* the orchestrator clock runs 0..MaxFlowTicks
MAX_AUTH_FLOWS == 2   \* flows at which create_auth_url sweeps (20 in the source)
KeepFlows == 1        \* flows the sweep keeps (10 in the source)

(***************************************************************************)
(* Policy of the credential manager.                                       *)
(***************************************************************************)
MaxErrorCodes == 1    \* length of the error history kept per credential
CooldownWindow == 1   \* ticks a rate-limited credential is suspended

(***************************************************************************)
(* Generic helpers.                                                        *)
(***************************************************************************)
Range(s) == {s[i] : i \in DOMAIN s}

Remove(s, x) == SelectSeq(s, LAMBDA y : y # x)

\* Python dict: insertion-ordered keys plus the mapping.
EmptyDict == [keys |-> <<>>, val |-> [x \in {} |-> 0]]

DictHas(d, k) == k \in Range(d.keys)

DictSet(d, k, v) ==
    [keys |-> IF DictHas(d, k) THEN d.keys ELSE Append(d.keys, k),
     val  |-> [x \in Range(d.keys) \cup {k} |-> IF x = k THEN v ELSE d.val[x]]]

DictDel(d, k) ==
    [keys |-> Remove(d.keys, k),
     val  |-> [x \in Range(d.keys) \ {k} |-> d.val[x]]]

(***************************************************************************)
(* Cache manager (UnifiedCacheManager): reads are served from memory,      *)
(* writes update memory and mark the table dirty.                          *)
(***************************************************************************)
NewCacheManager(d) == [keys |-> d.keys, val |-> d.val, dirty |-> FALSE]

cm_has(cm, key) == key \in Range(cm.keys)

cm_get(cm, key, default) == IF cm_has(cm, key) THEN cm.val[key] ELSE default

cm_set(cm, key, value) ==
    LET d == DictSet(cm, key, value)
    IN  [keys |-> d.keys, val |-> d.val, dirty |-> TRUE]

cm_delete(cm, key) ==
    LET d == DictDel(cm, key)
    IN  [keys |-> d.keys, val |-> d.val, dirty |-> TRUE]

cm_get_all(cm) == [keys |-> cm.keys, val |-> cm.val]

(***************************************************************************)
(* MySQLManager: credential entries of the "credentials" table.            *)
(***************************************************************************)
NoCooldown == 0           \* state without a "cooldown_until" key
EmptyCredential == "{}"   \* the empty credential dict
NoValue == "None"

_get_default_state(t) ==
    [error_codes |-> <<>>, disabled |-> FALSE, last_success |-> t,
     user_email |-> NoValue, cooldown_until |-> NoCooldown]

_get_default_stats == [call_timestamps |-> <<>>]

\* the state dict is rebuilt from the defaults and the updates
StateUpdate_FromDefaults(st, upd) ==
    [f \in DOMAIN st |-> IF f \in DOMAIN upd THEN upd[f] ELSE _get_default_state(0)[f]]

\* dict.update: the keys of upd replace those of st, the others stay
StateUpdate(st, upd) ==
    [f \in DOMAIN st |-> IF f \in DOMAIN upd THEN upd[f] ELSE st[f]]

\* the entry is rebuilt from the defaults on every store
store_credential_FreshState(cm, filename, credential_data, t) ==
    cm_set(cm, filename,
           [credential |-> credential_data,
            state |-> _get_default_state(t),
            stats |-> _get_default_stats])

store_credential(cm, filename, credential_data, t) ==
    LET has == cm_has(cm, filename)
        credential_entry ==
            [credential |-> credential_data,
             state |-> IF has THEN cm.val[filename].state ELSE _get_default_state(t),
             stats |-> IF has THEN cm.val[filename].stats ELSE _get_default_stats]
    IN  cm_set(cm, filename, credential_entry)

\* the read misses the cache
get_credential_Miss(cm, filename) == NoValue

get_credential(cm, filename) ==
    IF cm_has(cm, filename) THEN cm.val[filename].credential ELSE NoValue

list_credentials(cm) == cm_get_all(cm).keys

\* the entry stays in the cache
delete_credential_Keep(cm, filename) == cm

delete_credential(cm, filename) == cm_delete(cm, filename)

\* the update is applied to a copy and the unchanged entry is written back
update_credential_state_OnCopy(cm, filename, state_updates, t) ==
    cm_set(cm, filename,
           IF cm_has(cm, filename) THEN cm.val[filename]
           ELSE [credential |-> EmptyCredential,
                 state |-> _get_default_state(t),
                 stats |-> _get_default_stats])

update_credential_state(cm, filename, state_updates, t) ==
    LET existing_data ==
            IF cm_has(cm, filename) THEN cm.val[filename]
            ELSE [credential |-> EmptyCredential,
                  state |-> _get_default_state(t),
                  stats |-> _get_default_stats]
    IN  cm_set(cm, filename,
               [existing_data EXCEPT !.state = StateUpdate(@, state_updates)])

get_credential_state(cm, filename, t) ==
    IF cm_has(cm, filename) THEN cm.val[filename].state ELSE _get_default_state(t)

get_credential_order(cfg, cm) ==
    IF cm_has(cfg, "_credential_order")
    THEN cfg.val["_credential_order"]
    ELSE list_credentials(cm)

(***************************************************************************)
(* Credential manager: health bookkeeping and selection.                   *)
(***************************************************************************)
CredNames == {"A", "B"}
Blobs == {"k1"}
StatusCodes == {429, 500}
NoCred == "NoCred"

IsRateLimit(code) == code = 429

\* bounded error history: the oldest code is evicted first
PushErrorCode(codes, code) ==
    LET all == Append(codes, code)
    IN  IF Len(all) > MaxErrorCodes THEN Tail(all) ELSE all

add_credential(cm, name, blob, t) == store_credential(cm, name, blob, t)

remove_credential(cm, name) == delete_credential(cm, name)

\* the flag is written through the storage without asking whether the name
\* is in the pool
set_cred_disabled_Unchecked(cm, name, disabled, t) ==
    update_credential_state(cm, name, [disabled |-> disabled], t)

set_cred_disabled(cm, name, disabled, t) ==
    IF cm_has(cm, name)
    THEN update_credential_state(cm, name, [disabled |-> disabled], t)
    ELSE cm

record_api_call_result(cm, name, success, code, t) ==
    IF ~cm_has(cm, name) THEN cm
    ELSE IF success
    THEN update_credential_state(cm, name,
             [error_codes |-> <<>>, last_success |-> t], t)
    ELSE IF IsRateLimit(code)
    THEN update_credential_state(cm, name,
             [error_codes |-> PushErrorCode(cm.val[name].state.error_codes, code),
              cooldown_until |-> t + CooldownWindow], t)
    ELSE update_credential_state(cm, name,
             [error_codes |-> PushErrorCode(cm.val[name].state.error_codes, code)], t)

\* a cooldown that lasts until something clears cooldown_until
IsCooling_UntilCleared(st, t) == st.cooldown_until # NoCooldown

\* cooldown test of routers/credentials.py: cooling while now < cooldown_until
IsCooling(st, t) == st.cooldown_until # NoCooldown /\ t < st.cooldown_until

\* a selection that forgets the disabled flag
IsUsable_IgnoreDisabled(cm, name, t) ==
    /\ cm_has(cm, name)
    /\ ~IsCooling(cm.val[name].state, t)

IsUsable(cm, name, t) ==
    /\ cm_has(cm, name)
    /\ ~cm.val[name].state.disabled
    /\ ~IsCooling(cm.val[name].state, t)

UsableNames(cm, t) == {n \in Range(cm.keys) : IsUsable(cm, n, t)}

\* round-robin scan of the rotation order, starting at the rotation pointer
get_valid_credential(order, cm, idx, t) ==
    LET n == Len(order)
        pos(i) == ((idx + i) % n) + 1
        hits == {i \in 0..(n - 1) : IsUsable(cm, order[pos(i)], t)}
    IN  IF n = 0 \/ hits = {}
        THEN [cred |-> NoCred, index |-> idx]
        ELSE LET i == CHOOSE j \in hits : \A k \in hits : j <= k
             IN  [cred |-> order[pos(i)], index |-> pos(i) % n]

(***************************************************************************)
(* Proxy request path (routers/gemini.py).                                 *)
(***************************************************************************)
PassThrough == "token"       \* temporary credential built from the bearer token

\* send_gemini_request: the upstream call either returns or raises
UpstreamOutcomes == {"ok", "raised"}

\* the credential check moved inside the try block: its 503 becomes a 500
generate_content_status_InTry(cred_to_use, upstream) ==
    IF cred_to_use = NoCred \/ upstream = "raised" THEN 500 ELSE 200

\* HTTP status of generate_content / stream_generate_content
generate_content_status(cred_to_use, upstream) ==
    IF cred_to_use = NoCred THEN 503
    ELSE IF upstream = "raised" THEN 500
    ELSE 200

NoResponse ==
    [auth |-> "none", cred |-> NoCred, upstream |-> "none", status |-> 0,
     selDisabled |-> FALSE, selCooling |-> FALSE, usable |-> {}]

\* one proxy request: select, call upstream, answer.  The last three fields
\* of the response record describe the pool at the moment of selection.
ProxyRequest(auth, up) ==
    LET sel == IF auth = "user"
               THEN get_valid_credential(get_credential_order(config_cm, credentials_cm),
                                         credentials_cm, current_index, now)
               ELSE [cred |-> PassThrough, index |-> current_index]
        upstream == IF sel.cred = NoCred THEN "none" ELSE up
        pooled == auth = "user" /\ cm_has(credentials_cm, sel.cred)
        st == credentials_cm.val[sel.cred].state
    IN  /\ response' =
               [auth |-> auth, cred |-> sel.cred, upstream |-> upstream,
                status |-> generate_content_status(sel.cred, upstream),
                selDisabled |-> pooled /\ st.disabled,
                selCooling |-> pooled /\ st.cooldown_until > now,
                usable |-> IF auth = "user"
                           THEN {n \in Range(credentials_cm.keys) :
                                   /\ ~credentials_cm.val[n].state.disabled
                                   /\ credentials_cm.val[n].state.cooldown_until <= now}
                           ELSE {}]
        /\ current_index' = sel.index
        /\ UNCHANGED <<credentials_cm, config_cm, now>>
        /\ UNCHANGED notPool

GenerateContent == \E auth \in {"user", "oauth"}, up \in UpstreamOutcomes :
    ProxyRequest(auth, up) /\ UNCHANGED lastOp

StreamGenerateContent == \E auth \in {"user", "oauth"}, up \in UpstreamOutcomes :
    ProxyRequest(auth, up) /\ UNCHANGED lastOp

AddCredential == \E n \in CredNames, b \in Blobs :
    /\ credentials_cm' = add_credential(credentials_cm, n, b, now)
    /\ UNCHANGED <<config_cm, current_index, now, response, lastOp, notPool>>

RemoveCredential == \E n \in CredNames :
    /\ credentials_cm' = remove_credential(credentials_cm, n)
    /\ UNCHANGED <<config_cm, current_index, now, response, lastOp, notPool>>

SetCredDisabled == \E n \in CredNames, b \in BOOLEAN :
    /\ credentials_cm' = set_cred_disabled(credentials_cm, n, b, now)
    /\ UNCHANGED <<config_cm, current_index, now, response, lastOp, notPool>>

RecordApiCallResult == \E n \in CredNames, ok \in BOOLEAN, code \in StatusCodes :
    /\ credentials_cm' = record_api_call_result(credentials_cm, n, ok, code, now)
    /\ UNCHANGED <<config_cm, current_index, now, response, lastOp, notPool>>

Tick ==
    /\ now < MaxTime
    /\ now' = now + 1
    /\ UNCHANGED <<credentials_cm, config_cm, current_index, response, lastOp, notPool>>

NoOp == [op |-> "none", ok |-> FALSE, code |-> 0, served |-> 0]

PoolInit ==
    /\ credentials_cm = NewCacheManager(EmptyDict)
    /\ config_cm = NewCacheManager(EmptyDict)
    /\ current_index = 0
    /\ now = 0
    /\ response = NoResponse
    /\ lastOp = NoOp

UserIds == {<<"a", "1">>, <<"a", "2">>}   \* two values of secrets.token_hex

IsoIdle == owned = [u \in UserIds |-> {}]

\* tasks of SpecConc and the objects they may allocate
Tasks == {"t1", "t2"}
Refs == {"init"} \cup Tasks
NoEntry == [credential |-> NoValue, state |-> "init", stats |-> _get_default_stats]
IdleTask == [op |-> [kind |-> "none", flag |-> FALSE, code |-> 0],
             pc |-> "done", local |-> NoEntry]

ConcIdle ==
    /\ conc_cache = EmptyDict
    /\ conc_heap = [r \in Refs |-> _get_default_state(0)]
    /\ conc_task = [t \in Tasks |-> IdleTask]
    /\ conc_cm0 = NewCacheManager(EmptyDict)

\* the two cache tables and their rows in unified_storage
Tables == {"credentials", "config"}
RowKey == [credentials |-> "all_credentials", config |-> "config_data"]
RowKeys == {RowKey[T] : T \in Tables}

\* a JSON document: the text of a dict
json_text(d) == [text |-> [keys |-> d.keys, val |-> d.val]]
NoRow == [present |-> FALSE, data |-> json_text(EmptyDict)]

NoCacheEvent ==
    [event |-> "none", table |-> "none",
     mem |-> [T \in Tables |-> EmptyDict],
     sets |-> [T \in Tables |-> {}],
     written |-> {}, accepted |-> FALSE, loaded |-> FALSE,
     retry |-> [T \in Tables |-> FALSE], wasRetry |-> FALSE]

\* a started MySQLManager over an empty database
CacheIdle ==
    /\ db_rows = [k \in RowKeys |-> NoRow]
    /\ db_pool = TRUE
    /\ cache_sets = [T \in Tables |-> {}]
    /\ cache_log = NoCacheEvent

\* states handed out by create_auth_url, and the callers of complete_auth_flow
FlowIds == 1..MaxStarts
Callers == {"c1", "c2"}

NoFlow ==
    [project_id |-> NoValue, user_session |-> NoValue, callback_port |-> 0,
     code |-> NoValue, completed |-> FALSE, created_at |-> 0,
     auto_project_detection |-> FALSE, fate |-> "unissued"]

NoServer == [port |-> 0, running |-> FALSE, shutdowns |-> 0]

\* waited: CALLBACK_WAIT seconds have passed since the wait began
IdleCaller == [phase |-> "idle", state |-> 0, waited |-> FALSE]

NoFile == <<>>
NoResult == [outcome |-> "none", state |-> 0, file_path |-> NoFile]

FlowIdle ==
    /\ flow_result = NoResult
    /\ flow_ticks = 0
    /\ auth_flows = <<>>
    /\ flow_objs = [i \in FlowIds |-> NoFlow]
    /\ servers = [i \in FlowIds |-> NoServer]
    /\ next_id = 1
    /\ callers = [c \in Callers |-> IdleCaller]

\* the users and tokens tables of UserManager
Usernames == {"user1", "user2"}
Passwords == {"password123", "other"}

\* created_as: the role the row was inserted with
NoUser == [present |-> FALSE, id |-> 0, password_hash |-> <<>>, role |-> "user",
           disabled |-> FALSE, created_as |-> "user"]

NoAuthResp == [op |-> "none", status |-> 0, username |-> "None", password |-> "None",
               token |-> 0, user_id |-> 0]

UserIdle ==
    /\ users = [u \in Usernames |-> NoUser]
    /\ tokens = <<>>
    /\ auth_resp = NoAuthResp

\* "USER_stats_" + user_id
user_key(user_id) == CASE user_id = "u1" -> "USER_stats_u1"

\* the keys of the statistics cache: credential names and per-user keys
StatKeys == {"A", "B", user_key("u1")}

\* the last UsageStats call: the count it reported, the keys whose write
\* failed in its save, whether its save ran, and (calls) the timestamps
\* recorded for each credential since its last reset
StatsCall(op, filename, calls_24h, saved, failed, calls) ==
    [op |-> op, filename |-> filename, calls_24h |-> calls_24h, saved |-> saved,
     failed |-> failed, calls |-> calls]

\* UsageStats after initialize() on a store without statistics
NoStatsCall == StatsCall("none", "None", 0, FALSE, {}, [k \in {"A", "B"} |-> <<>>])

StatsIdle ==
    /\ stats_cache = EmptyDict
    /\ cache_dirty = FALSE
    /\ last_save_time = 0
    /\ stats_log = NoStatsCall

\* ConnectionManager() with no client; a WebSocket has the position of its
\* websocket_logs handler and its client_state
Sockets == {"w1", "w2", "w3", "w4"}

NewSocket == [pc |-> "new", client_state |-> "CONNECTED"]

WsIdle ==
    /\ active_connections = <<>>
    /\ sockets = [w \in Sockets |-> NewSocket]

Init == PoolInit /\ IsoIdle /\ ConcIdle /\ CacheIdle /\ FlowIdle /\ UserIdle /\ StatsIdle /\ WsIdle

Next ==
    \/ AddCredential
    \/ RemoveCredential
    \/ SetCredDisabled
    \/ RecordApiCallResult
    \/ GenerateContent
    \/ StreamGenerateContent
    \/ Tick

Spec == Init /\ [][Next]_vars

(***************************************************************************)
(* Claims about the pool and the proxy request path (Spec).                *)
(***************************************************************************)
PoolState(n) == credentials_cm.val[n].state

\* C1: in every reachable pool state, the credential handed out by
\* get_valid_credential was, at the moment of selection, a pool record that
\* was not disabled and whose cooldown_until was not later than the clock.
C1_SelectNeverUnusable ==
    (response.auth = "user" /\ response.cred # NoCred) =>
        /\ response.cred \in response.usable
        /\ ~response.selDisabled
        /\ ~response.selCooling

\* a credential was handed out while another record was disabled or cooling
C1_Witness ==
    /\ response.auth = "user"
    /\ response.cred \in CredNames
    /\ \E n \in Range(credentials_cm.keys) \ response.usable :
          PoolState(n).disabled \/ PoolState(n).cooldown_until > now

\* C3: when the upstream call made with a pool credential fails while
\* another credential is usable, the failure is recorded in that
\* credential's health state and the request is not answered with a hard
\* error (HTTP 500).
C3_FailureAbsorbed ==
    [][(/\ response' # response
        /\ response'.auth = "user"
        /\ response'.upstream = "raised"
        /\ response'.usable \ {response'.cred} # {})
       => (/\ response'.status # 500
           /\ credentials_cm'.val[response'.cred].state
                 # credentials_cm.val[response'.cred].state)]_vars

\* C4: when no credential is eligible the selection yields the no-credential
\* outcome, the request is answered 503 without an upstream call, and 503 is
\* not the status of an internal fault (500).
C4_NoCredentialIs503 ==
    /\ (response.auth = "user" /\ response.usable = {}) =>
          /\ response.cred = NoCred
          /\ response.upstream = "none"
          /\ response.status = 503
    /\ response.status = 503 => response.cred = NoCred
    /\ response.upstream = "raised" => response.status = 500

\* a request found a non-empty pool without any eligible record
C4_Witness ==
    /\ response.auth = "user"
    /\ response.usable = {}
    /\ response.status = 503
    /\ credentials_cm.keys # <<>>

\* C16: a record that is disabled is not handed out and does not become
\* eligible by any step other than set_cred_disabled(name, False), whatever
\* outcomes are recorded and however far the clock moves; and a request that
\* finds records that are enabled and whose cooldown_until is not later than
\* the clock is handed one of them, with no step in between that clears the
\* cooldown
C16_DisabledUntilEnabled ==
    [][/\ \A n \in Range(credentials_cm.keys) :
            PoolState(n).disabled =>
                /\ (response' # response /\ response'.auth = "user") => response'.cred # n
                /\ IsUsable(credentials_cm', n, now') =>
                      credentials_cm' = set_cred_disabled(credentials_cm, n, FALSE, now)
       /\ (response' # response /\ response'.auth = "user") =>
            LET ready == {n \in Range(credentials_cm.keys) :
                            /\ ~PoolState(n).disabled
                            /\ PoolState(n).cooldown_until <= now}
            IN  ready # {} => response'.cred \in ready]_vars

\* a record whose cooldown has run out was handed out while a disabled
\* record, whose cooldown has run out as well, was passed over
C16_Witness ==
    \E n, m \in Range(credentials_cm.keys) :
        /\ response.auth = "user"
        /\ response.cred = n
        /\ ~PoolState(n).disabled
        /\ PoolState(n).cooldown_until # NoCooldown
        /\ PoolState(n).cooldown_until <= now
        /\ PoolState(m).disabled
        /\ PoolState(m).cooldown_until # NoCooldown
        /\ PoolState(m).cooldown_until <= now
        /\ PoolState(m).error_codes # <<>>

(***************************************************************************)
(* SpecScenario: the pool A (healthy), B (disabled), C (cooling until a    *)
(* time the clock never reaches); the driver selects, reports outcomes of  *)
(* calls made with A, and lets time pass.                                  *)
(***************************************************************************)
FarFuture == MaxTime + 1

ScenarioPool ==
    LET c0 == NewCacheManager(EmptyDict)
        c1 == add_credential(c0, "A", "k1", 0)
        c2 == add_credential(c1, "B", "k1", 0)
        c3 == add_credential(c2, "C", "k1", 0)
        c4 == set_cred_disabled(c3, "B", TRUE, 0)
    IN  update_credential_state(c4, "C", [cooldown_until |-> FarFuture], 0)

ScenInit ==
    /\ credentials_cm = ScenarioPool
    /\ config_cm = NewCacheManager(EmptyDict)
    /\ current_index = 0
    /\ now = 0
    /\ response = NoResponse
    /\ lastOp = NoOp
    /\ IsoIdle
    /\ ConcIdle
    /\ CacheIdle
    /\ FlowIdle
    /\ UserIdle
    /\ StatsIdle
    /\ WsIdle

ScenSelect == \E up \in UpstreamOutcomes :
    /\ ProxyRequest("user", up)
    /\ lastOp' = [op |-> "select", ok |-> FALSE, code |-> 0,
                  served |-> IF response'.cred # NoCred /\ lastOp.served < MaxCalls
                             THEN lastOp.served + 1 ELSE lastOp.served]

ScenRecord == \E ok \in BOOLEAN, code \in StatusCodes :
    /\ credentials_cm' = record_api_call_result(credentials_cm, "A", ok, code, now)
    /\ lastOp' = [op |-> "record", ok |-> ok, code |-> IF ok THEN 0 ELSE code,
                  served |-> lastOp.served]
    /\ UNCHANGED <<config_cm, current_index, now, response, notPool>>

ScenTick ==
    /\ now < MaxTime
    /\ now' = now + 1
    /\ lastOp' = [op |-> "tick", ok |-> FALSE, code |-> 0, served |-> lastOp.served]
    /\ UNCHANGED <<credentials_cm, config_cm, current_index, response, notPool>>

ScenNext == ScenSelect \/ ScenRecord \/ ScenTick

SpecScenario == ScenInit /\ [][ScenNext]_vars

\* C5: with A enabled and not cooling, B disabled and C cooling, every
\* selection returns A; a reported 429 failure of A leaves A cooling (not
\* disabled) with no usable record, and the next selection returns the
\* empty-pool outcome.
C5_Scenario ==
    /\ (lastOp.op = "select" /\ ~PoolState("A").disabled
           /\ PoolState("A").cooldown_until <= now) =>
          (response.cred = "A" /\ response.status # 503)
    /\ (lastOp.op = "record" /\ ~lastOp.ok /\ lastOp.code = 429) =>
          /\ PoolState("A").cooldown_until > now
          /\ ~PoolState("A").disabled
          /\ 429 \in Range(PoolState("A").error_codes)
          /\ UsableNames(credentials_cm, now) = {}
    /\ (lastOp.op = "select" /\ PoolState("A").cooldown_until > now) =>
          (response.cred = NoCred /\ response.status = 503)
    /\ PoolState("B").disabled
    /\ PoolState("C").cooldown_until > now

\* A was handed out MaxCalls times, then reported rate-limited, and the
\* selection after that found no credential
C5_Witness ==
    /\ lastOp.op = "select"
    /\ lastOp.served = MaxCalls
    /\ response.cred = NoCred
    /\ 429 \in Range(PoolState("A").error_codes)
    /\ PoolState("A").cooldown_until > now
(***************************************************************************)
(* SpecIso: per-user credential namespaces (utils.py, routers/auth.py,     *)
(* routers/credentials.py).  File names are sequences of characters; the   *)
(* extension ".json" is one token.                                         *)
(***************************************************************************)
StartsWith(s, prefix) ==
    Len(s) >= Len(prefix) /\ SubSeq(s, 1, Len(prefix)) = prefix

EndsWith(s, suffix) ==
    Len(s) >= Len(suffix) /\ SubSeq(s, Len(s) - Len(suffix) + 1, Len(s)) = suffix

UserPrefix(user_id) == <<"u", "_">> \o user_id \o <<"_">>

\* a name that already looks prefixed (by anybody) is taken as it is
get_user_filename_AnyPrefix(user_id, filename) ==
    IF StartsWith(filename, <<"u", "_">>) THEN filename
    ELSE UserPrefix(user_id) \o filename

get_user_filename(user_id, filename) ==
    IF StartsWith(filename, UserPrefix(user_id)) THEN filename
    ELSE UserPrefix(user_id) \o filename

strip_user_prefix(user_id, filename) ==
    IF StartsWith(filename, UserPrefix(user_id))
    THEN SubSeq(filename, Len(UserPrefix(user_id)) + 1, Len(filename))
    ELSE filename

Json == <<".json">>
EnvPrefix == <<"e", "n", "v", "-">>

\* GCLI_CREDS_<name> variables of the process environment
EnvCredNames == {<<"x">>}
EnvBlob == "kenv"

\* file names a client may send
UploadNames ==
    {<<"x">> \o Json, EnvPrefix \o <<"x">> \o Json, <<"x", ".txt">>}
    \cup {UserPrefix(u) \o <<"x">> \o Json : u \in UserIds}

\* GET /creds/status: the stored names shown to user_id ...
user_credentials(cm, user_id) ==
    SelectSeq(list_credentials(cm), LAMBDA f : StartsWith(f, UserPrefix(user_id)))

\* ... and the names and contents returned for them
get_creds_status(cm, user_id) ==
    [clean \in {strip_user_prefix(user_id, f) : f \in Range(user_credentials(cm, user_id))} |->
        LET f == CHOOSE g \in Range(user_credentials(cm, user_id)) :
                     strip_user_prefix(user_id, g) = clean
        IN  [filename |-> clean, content |-> get_credential(cm, f)]]

\* POST /auth/upload with a .json file (other extensions are answered 400)
UploadCredential == \E u \in UserIds, filename \in UploadNames, b \in Blobs :
    LET target_filename == get_user_filename(u, filename)
    IN  IF EndsWith(filename, Json)
        THEN /\ credentials_cm' = add_credential(credentials_cm, target_filename, b, now)
             /\ owned' = [owned EXCEPT ![u] = @ \cup {target_filename}]
             /\ UNCHANGED <<config_cm, current_index, now, response, lastOp, notIso>>
        ELSE UNCHANGED vars

\* auto_load_env_credentials: every GCLI_CREDS_ variable is stored globally
auto_load_env_credentials(cm, t) ==
    LET names == EnvCredNames
        store[S \in SUBSET names] ==
            IF S = {} THEN cm
            ELSE LET n == CHOOSE x \in S : TRUE
                 IN  store_credential(store[S \ {n}], EnvPrefix \o n \o Json, EnvBlob, t)
    IN  store[names]

\* copy of the env-* credentials under the caller's prefix
CopyEnvCreds(cm, u, files, t) ==
    LET copy[i \in 0..Len(files)] ==
            IF i = 0 THEN cm
            ELSE add_credential(copy[i - 1], get_user_filename(u, files[i]),
                                get_credential(copy[i - 1], files[i]), t)
    IN  copy[Len(files)]

\* POST /auth/load-env-creds
ApiLoadEnvCreds == \E u \in UserIds :
    LET loaded == auto_load_env_credentials(credentials_cm, now)
        env_creds == SelectSeq(list_credentials(loaded),
                               LAMBDA f : StartsWith(f, EnvPrefix))
    IN  /\ credentials_cm' = CopyEnvCreds(loaded, u, env_creds, now)
        /\ owned' = [owned EXCEPT
                       ![u] = @ \cup {get_user_filename(u, f) : f \in Range(env_creds)}]
        /\ UNCHANGED <<config_cm, current_index, now, response, lastOp, notIso>>

IsoNext == UploadCredential \/ ApiLoadEnvCreds

SpecIso == Init /\ [][IsoNext]_vars

\* C2: for distinct users a and b, no credential stored by a's uploads or
\* env loads is among the credentials listed for b, and every credential
\* stored by a's requests is listed for a with its content.
C2_UserIsolation ==
    \A a \in UserIds :
        /\ \A b \in UserIds \ {a} :
              \A f \in owned[a] : f \notin Range(user_credentials(credentials_cm, b))
        /\ \A f \in owned[a] :
              /\ strip_user_prefix(a, f) \in DOMAIN get_creds_status(credentials_cm, a)
              /\ get_creds_status(credentials_cm, a)[strip_user_prefix(a, f)].content
                    = get_credential(credentials_cm, f)

\* both users uploaded (one of them a name carrying the other's prefix) and
\* one of them loaded the env credentials
C2_Witness ==
    \E a \in UserIds : \E b \in UserIds \ {a} :
        /\ get_user_filename(a, UserPrefix(b) \o <<"x">> \o Json) \in owned[a]
        /\ get_user_filename(a, EnvPrefix \o <<"x">> \o Json) \in owned[a]
        /\ owned[b] # {}
        /\ DOMAIN get_creds_status(credentials_cm, b) # {}
(***************************************************************************)
(* SpecConc: calls on one credential name running as concurrent tasks.     *)
(* store_credential and update_credential_state read the entry with one    *)
(* awaited cache call and write it back with another; a task may be        *)
(* suspended between the two.  The cache hands out the stored dict itself, *)
(* so the state dict of an entry is shared by everyone who holds it.       *)
(***************************************************************************)
ConcName == "A"

\* the calls a task may make: add, remove, setDisabled(true),
\* recordOutcome(success), recordOutcome(failure, 429)
ConcOps ==
    {[kind |-> "add", flag |-> FALSE, code |-> 0],
     [kind |-> "remove", flag |-> FALSE, code |-> 0],
     [kind |-> "setDisabled", flag |-> TRUE, code |-> 0],
     [kind |-> "record", flag |-> TRUE, code |-> 0],
     [kind |-> "record", flag |-> FALSE, code |-> 429]}

\* state_updates the credential manager passes down for a call
StateUpdatesOf(op, cur, t) ==
    IF op.kind = "setDisabled" THEN [disabled |-> op.flag]
    ELSE IF op.flag THEN [error_codes |-> <<>>, last_success |-> t]
    ELSE IF IsRateLimit(op.code)
    THEN [error_codes |-> PushErrorCode(cur.error_codes, op.code),
          cooldown_until |-> t + CooldownWindow]
    ELSE [error_codes |-> PushErrorCode(cur.error_codes, op.code)]

\* tables the tasks may start from: empty, ConcName healthy, ConcName disabled
ConcTables ==
    {NewCacheManager(EmptyDict),
     NewCacheManager(store_credential(NewCacheManager(EmptyDict), ConcName, "k0", 0)),
     NewCacheManager(update_credential_state(
         store_credential(NewCacheManager(EmptyDict), ConcName, "k0", 0),
         ConcName, [disabled |-> TRUE], 0))}

ConcTasksInit ==
    /\ conc_cm0 \in ConcTables
    /\ conc_cache =
         IF cm_has(conc_cm0, ConcName)
         THEN DictSet(EmptyDict, ConcName,
                      [conc_cm0.val[ConcName] EXCEPT !.state = "init"])
         ELSE EmptyDict
    /\ conc_heap =
         [r \in Refs |-> IF r = "init" /\ cm_has(conc_cm0, ConcName)
                         THEN conc_cm0.val[ConcName].state
                         ELSE _get_default_state(0)]
    /\ conc_task \in [Tasks -> {[op |-> o, pc |-> "start", local |-> NoEntry] : o \in ConcOps}]

\* store_credential up to its second await: the entry has been read and the
\* new entry built; it takes over the state dict of the existing entry
StoreCredentialGet(t) ==
    /\ conc_task[t].pc = "start"
    /\ conc_task[t].op.kind = "add"
    /\ LET has == DictHas(conc_cache, ConcName)
           credential_entry ==
               [credential |-> CHOOSE b \in Blobs : TRUE,
                state |-> IF has THEN conc_cache.val[ConcName].state ELSE t,
                stats |-> IF has THEN conc_cache.val[ConcName].stats
                          ELSE _get_default_stats]
       IN  /\ conc_heap' = IF has THEN conc_heap
                           ELSE [conc_heap EXCEPT ![t] = _get_default_state(now)]
           /\ conc_task' = [conc_task EXCEPT ![t].pc = "set",
                                             ![t].local = credential_entry]
    /\ UNCHANGED <<conc_cache, conc_cm0, notConc>>

\* update_credential_state up to its second await, entered by set_cred_disabled
\* or record_api_call_result (which return at once for an unknown name): the
\* entry has been read and its state dict updated in place
UpdateCredentialStateGet(t) ==
    /\ conc_task[t].pc = "start"
    /\ conc_task[t].op.kind \in {"setDisabled", "record"}
    /\ IF ~DictHas(conc_cache, ConcName)
       THEN /\ conc_task' = [conc_task EXCEPT ![t].pc = "done"]
            /\ UNCHANGED conc_heap
       ELSE LET existing_data == conc_cache.val[ConcName]
                ref == existing_data.state
                state_updates == StateUpdatesOf(conc_task[t].op, conc_heap[ref], now)
            IN  /\ conc_heap' = [conc_heap EXCEPT
                                    ![ref] = StateUpdate(@, state_updates)]
                /\ conc_task' = [conc_task EXCEPT ![t].pc = "set",
                                                  ![t].local = existing_data]
    /\ UNCHANGED <<conc_cache, conc_cm0, notConc>>

\* the closing cache set of store_credential and update_credential_state
CacheSet(t) ==
    /\ conc_task[t].pc = "set"
    /\ conc_cache' = DictSet(conc_cache, ConcName, conc_task[t].local)
    /\ conc_task' = [conc_task EXCEPT ![t].pc = "done"]
    /\ UNCHANGED <<conc_heap, conc_cm0, notConc>>

\* delete_credential: one cache call
DeleteCredential(t) ==
    /\ conc_task[t].pc = "start"
    /\ conc_task[t].op.kind = "remove"
    /\ conc_cache' = DictDel(conc_cache, ConcName)
    /\ conc_task' = [conc_task EXCEPT ![t].pc = "done"]
    /\ UNCHANGED <<conc_heap, conc_cm0, notConc>>

ConcNext == \E t \in Tasks :
    \/ StoreCredentialGet(t)
    \/ UpdateCredentialStateGet(t)
    \/ CacheSet(t)
    \/ DeleteCredential(t)

ConcInit == PoolInit /\ IsoIdle /\ ConcTasksInit /\ CacheIdle /\ FlowIdle /\ UserIdle
            /\ StatsIdle /\ WsIdle

SpecConc == ConcInit /\ [][ConcNext]_vars

\* presence and health state of ConcName in a table
HealthOf(has, state) == [present |-> has, state |-> state]

ConcFinal ==
    IF DictHas(conc_cache, ConcName)
    THEN HealthOf(TRUE, conc_heap[conc_cache.val[ConcName].state])
    ELSE HealthOf(FALSE, _get_default_state(0))

\* one call applied as a whole
ApplyCall(cm, op, t) ==
    IF op.kind = "add" THEN add_credential(cm, ConcName, CHOOSE b \in Blobs : TRUE, t)
    ELSE IF op.kind = "remove" THEN remove_credential(cm, ConcName)
    ELSE IF op.kind = "setDisabled" THEN set_cred_disabled(cm, ConcName, op.flag, t)
    ELSE record_api_call_result(cm, ConcName, op.flag, op.code, t)

\* health state after the tasks' calls applied one at a time, in every order
SerialOutcomes ==
    LET orders == {s \in [1..Cardinality(Tasks) -> Tasks] : Range(s) = Tasks}
        replay[i \in 0..Cardinality(Tasks)] ==
            [s \in orders |->
                IF i = 0 THEN conc_cm0
                ELSE ApplyCall(replay[i - 1][s], conc_task[s[i]].op, now)]
    IN  {LET cm == replay[Cardinality(Tasks)][s]
         IN  IF cm_has(cm, ConcName)
             THEN HealthOf(TRUE, cm.val[ConcName].state)
             ELSE HealthOf(FALSE, _get_default_state(0)) : s \in orders}

\* C6: once the concurrent add / remove / setDisabled / recordOutcome calls
\* on one credential name have all returned, the presence and health state
\* of that name equal the result of applying the same calls one at a time
\* in some order.
C6_Serializable ==
    (\A t \in Tasks : conc_task[t].pc = "done") => ConcFinal \in SerialOutcomes
(***************************************************************************)
(* SpecCache: the two debounced caches of MySQLManager over their rows of  *)
(* unified_storage: set / delete, the flush timer, close() and a restart.  *)
(***************************************************************************)
CacheKeys == {"k1"}

\* cached values: JSON-native ones, as the program stores
JsonNative == {"str"}
CacheValues == {[kind |-> "str", v |-> "v1"], [kind |-> "str", v |-> "v2"]}

\* json.dumps(data, default=str): what JSON cannot express is written as its str()
JsonEncode(v) == IF v.kind \in JsonNative THEN v ELSE [kind |-> "str", v |-> v.v]

json_dumps(data) ==
    json_text([keys |-> data.keys,
               val |-> [k \in Range(data.keys) |-> JsonEncode(data.val[k])]])

json_loads(doc) == doc.text

\* MySQLCacheBackend.load_data: an absent row and a failed read both give {}
load_data(rows, pool, row_key, read_ok) ==
    IF ~pool \/ ~read_ok THEN EmptyDict
    ELSE IF rows[row_key].present THEN json_loads(rows[row_key].data)
    ELSE EmptyDict

\* a failed write is reported as done
write_data_SwallowError(rows, pool, row_key, data, store_ok) ==
    IF pool /\ store_ok
    THEN [rows |-> [rows EXCEPT ![row_key] =
                       [present |-> TRUE, data |-> json_dumps(data)]],
          ok |-> TRUE]
    ELSE [rows |-> rows, ok |-> TRUE]

\* MySQLCacheBackend.write_data: upsert of the row; False when anything raises
write_data(rows, pool, row_key, data, store_ok) ==
    IF pool /\ store_ok
    THEN [rows |-> [rows EXCEPT ![row_key] =
                       [present |-> TRUE, data |-> json_dumps(data)]],
          ok |-> TRUE]
    ELSE [rows |-> rows, ok |-> FALSE]

\* the manager with its caches, rows and pool as one value
CurStorage ==
    [credentials |-> credentials_cm, config |-> config_cm,
     rows |-> db_rows, pool |-> db_pool]

SetStorage(S) ==
    /\ credentials_cm' = S.credentials
    /\ config_cm' = S.config
    /\ db_rows' = S.rows
    /\ db_pool' = S.pool

MemOf(S) == [T \in Tables |-> cm_get_all(S[T])]

\* UnifiedCacheManager: write the table if dirty; clean only when written
cache_flush(S, T, store_ok) ==
    LET w == write_data(S.rows, S.pool, RowKey[T], cm_get_all(S[T]), store_ok)
    IN  IF S[T].dirty
        THEN [S EXCEPT ![T].dirty = ~w.ok, !.rows = w.rows]
        ELSE S

\* UnifiedCacheManager.stop: one final flush
cache_stop(S, T, store_ok) == cache_flush(S, T, store_ok)

pool_close(S) == [S EXCEPT !.pool = FALSE]

\* the pool is released before the caches are stopped
close_PoolFirst(S, ok_credentials, ok_config) ==
    cache_stop(cache_stop(pool_close(S), "credentials", ok_credentials),
               "config", ok_config)

\* MySQLManager.close
close(S, ok_credentials, ok_config) ==
    pool_close(cache_stop(cache_stop(S, "credentials", ok_credentials),
                          "config", ok_config))

\* MySQLManager.initialize of a fresh instance: new pool, both caches loaded
initialize(S, read_credentials, read_config) ==
    [credentials |-> NewCacheManager(
         load_data(S.rows, TRUE, RowKey["credentials"], read_credentials)),
     config |-> NewCacheManager(
         load_data(S.rows, TRUE, RowKey["config"], read_config)),
     rows |-> S.rows, pool |-> TRUE]

LogEvent(event, T) ==
    [event |-> event, table |-> T, mem |-> MemOf(CurStorage), sets |-> cache_sets,
     written |-> {}, accepted |-> FALSE, loaded |-> FALSE,
     retry |-> cache_log.retry, wasRetry |-> FALSE]

CacheSetKey == \E T \in Tables, k \in CacheKeys, v \in CacheValues :
    /\ db_pool
    /\ SetStorage([CurStorage EXCEPT ![T] = cm_set(@, k, v)])
    /\ cache_sets' = [cache_sets EXCEPT ![T] = @ \cup {k}]
    /\ cache_log' = LogEvent("set", T)
    /\ UNCHANGED notCache

CacheDeleteKey == \E T \in Tables, k \in CacheKeys :
    /\ db_pool
    /\ cm_has(CurStorage[T], k)
    /\ SetStorage([CurStorage EXCEPT ![T] = cm_delete(@, k)])
    /\ cache_sets' = [cache_sets EXCEPT ![T] = @ \ {k}]
    /\ cache_log' = LogEvent("delete", T)
    /\ UNCHANGED notCache

\* one tick of the flush timer of table T; the store takes the write or fails it
Flush(T) == \E store_ok \in BOOLEAN :
    /\ db_pool
    /\ CurStorage[T].dirty
    /\ SetStorage(cache_flush(CurStorage, T, store_ok))
    /\ cache_log' =
         [LogEvent(IF store_ok THEN "flush_ok" ELSE "flush_failed", T) EXCEPT
            !.written = IF store_ok THEN {T} ELSE {},
            !.retry = [cache_log.retry EXCEPT ![T] = ~store_ok],
            !.wasRetry = cache_log.retry[T]]
    /\ UNCHANGED <<cache_sets, notCache>>

FlushTick == \E T \in Tables : Flush(T)

Close == \E ok_credentials, ok_config \in BOOLEAN :
    LET ok == [credentials |-> ok_credentials, config |-> ok_config]
    IN  /\ db_pool
        /\ SetStorage(close(CurStorage, ok_credentials, ok_config))
        /\ cache_log' =
             [LogEvent("close", "none") EXCEPT
                !.written = {T \in Tables : CurStorage[T].dirty /\ ok[T]},
                !.accepted = \A T \in Tables : CurStorage[T].dirty => ok[T]]
        /\ UNCHANGED <<cache_sets, notCache>>

Initialize == \E read_credentials, read_config \in BOOLEAN :
    /\ ~db_pool
    /\ SetStorage(initialize(CurStorage, read_credentials, read_config))
    /\ cache_sets' = [T \in Tables |-> {}]
    /\ cache_log' =
         [LogEvent("initialize", "none") EXCEPT
            !.written = cache_log.written,
            !.accepted = cache_log.accepted,
            !.loaded = read_credentials /\ read_config,
            !.retry = [T \in Tables |-> FALSE]]
    /\ UNCHANGED notCache

CacheNext ==
    \/ CacheSetKey
    \/ CacheDeleteKey
    \/ FlushTick
    \/ Close
    \/ Initialize

SpecCache == Init /\ [][CacheNext]_vars

\* the value the store row of table T holds for key k
StoredValue(T, k) ==
    LET d == load_data(db_rows, TRUE, RowKey[T], TRUE)
    IN  IF DictHas(d, k) THEN d.val[k] ELSE [kind |-> "absent", v |-> ""]

\* the value table T serves for key k
ServedValue(T, k) ==
    IF cm_has(CurStorage[T], k) THEN CurStorage[T].val[k]
    ELSE [kind |-> "absent", v |-> ""]

C8_FlushFailure ==
    /\ cache_log.event = "flush_failed" =>
          /\ cm_get_all(CurStorage[cache_log.table]) = cache_log.mem[cache_log.table]
          /\ CurStorage[cache_log.table].dirty
          /\ ENABLED Flush(cache_log.table)
    /\ cache_log.event = "flush_ok" =>
          /\ ~CurStorage[cache_log.table].dirty
          /\ \A k \in CacheKeys :
                StoredValue(cache_log.table, k) = ServedValue(cache_log.table, k)

\* a write succeeded on the retry after a failed flush of a table holding a key
C8_Witness ==
    /\ cache_log.event = "flush_ok"
    /\ cache_log.wasRetry
    /\ \E k \in CacheKeys : ServedValue(cache_log.table, k) \in CacheValues
(***************************************************************************)
(* SpecFlow: the OAuth flow orchestrator (services/auth_service.py): flow  *)
(* records, their callback listeners, the sweep and flow completion.       *)
(***************************************************************************)
\* project_id arguments: the flows are started without one and detect it
Projects == {NoValue}
DetectedProject == "p1"
Sessions == {"s1"}

FLOW_TTL == 1800          \* seconds after which the sweep drops a flow
CALLBACK_WAIT == 300      \* seconds complete_auth_flow waits for the code
CALLBACK_PORT == 8080     \* oauth_callback_port
PORT_PROBES == 100        \* ports find_available_port tries
OS_ASSIGNED_PORT == 49152 \* a port the system hands out for bind(0)

\* time.time(): the clock is read at instants a little over FLOW_TTL apart
TickSeconds == FLOW_TTL + 1
time == flow_ticks * TickSeconds

CurFlows == [auth_flows |-> auth_flows, flow_objs |-> flow_objs, servers |-> servers]

\* first port of the probe range that no running listener holds
\* the probe takes the first port of the range whatever is listening on it
find_available_port_NoProbe(srv) == CALLBACK_PORT

find_available_port(srv) ==
    LET free == {p \in CALLBACK_PORT..(CALLBACK_PORT + PORT_PROBES - 1) :
                   \A i \in FlowIds : ~(srv[i].running /\ srv[i].port = p)}
    IN  IF free = {} THEN OS_ASSIGNED_PORT
        ELSE CHOOSE p \in free : \A q \in free : p <= q

\* server.shutdown() and server.server_close() for a state still registered
_shutdown_flow_server(F, state) ==
    IF state \in Range(F.auth_flows)
    THEN [F EXCEPT !.servers[state] =
              [@ EXCEPT !.running = FALSE, !.shutdowns = @ + 1]]
    ELSE F

ShutdownAll(F, states) ==
    LET down[S \in SUBSET states] ==
            IF S = {} THEN F
            ELSE LET x == CHOOSE y \in S : TRUE
                 IN  _shutdown_flow_server(down[S \ {x}], x)
    IN  down[states]

\* the sort without reverse=True: oldest first
SortedNewestFirst_OldestFirst(flows, objs) ==
    LET idx(x) == CHOOSE i \in DOMAIN flows : flows[i] = x
        before(x) == {y \in Range(flows) :
                        \/ objs[y].created_at < objs[x].created_at
                        \/ objs[y].created_at = objs[x].created_at /\ idx(y) < idx(x)}
    IN  [p \in DOMAIN flows |->
            CHOOSE x \in Range(flows) : Cardinality(before(x)) = p - 1]

\* sorted(..., key=created_at, reverse=True): stable, newest first
SortedNewestFirst(flows, objs) ==
    LET idx(x) == CHOOSE i \in DOMAIN flows : flows[i] = x
        before(x) == {y \in Range(flows) :
                        \/ objs[y].created_at > objs[x].created_at
                        \/ objs[y].created_at = objs[x].created_at /\ idx(y) < idx(x)}
    IN  [p \in DOMAIN flows |->
            CHOOSE x \in Range(flows) : Cardinality(before(x)) = p - 1]

\* the sweep drops the kept-too-many flows without closing their listeners
cleanup_auth_flows_NoShutdown(F, t) ==
    LET expired == {st \in Range(F.auth_flows) :
                       t - F.flow_objs[st].created_at > FLOW_TTL}
        F1 == ShutdownAll(F, expired)
        F2 == [F1 EXCEPT
                 !.auth_flows = SelectSeq(@, LAMBDA st : st \notin expired),
                 !.flow_objs = [i \in FlowIds |->
                     IF i \in expired THEN [@[i] EXCEPT !.fate = "expired"] ELSE @[i]]]
        sorted_flows == SortedNewestFirst(F2.auth_flows, F2.flow_objs)
        new_auth_flows == SubSeq(sorted_flows, 1, KeepFlows)
        dropped == Range(F2.auth_flows) \ Range(new_auth_flows)
    IN  IF Len(F2.auth_flows) > KeepFlows
        THEN [F2 EXCEPT
                !.auth_flows = new_auth_flows,
                !.flow_objs = [i \in FlowIds |->
                    IF i \in dropped THEN [@[i] EXCEPT !.fate = "evicted"] ELSE @[i]]]
        ELSE F2

\* AuthService.cleanup_auth_flows: expiry, then the hard limit
cleanup_auth_flows(F, t) ==
    LET expired == {st \in Range(F.auth_flows) :
                       t - F.flow_objs[st].created_at > FLOW_TTL}
        F1 == ShutdownAll(F, expired)
        F2 == [F1 EXCEPT
                 !.auth_flows = SelectSeq(@, LAMBDA st : st \notin expired),
                 !.flow_objs = [i \in FlowIds |->
                     IF i \in expired THEN [@[i] EXCEPT !.fate = "expired"] ELSE @[i]]]
        sorted_flows == SortedNewestFirst(F2.auth_flows, F2.flow_objs)
        new_auth_flows == SubSeq(sorted_flows, 1, KeepFlows)
        dropped == Range(F2.auth_flows) \ Range(new_auth_flows)
        F3 == ShutdownAll(F2, dropped)
    IN  IF Len(F2.auth_flows) > KeepFlows
        THEN [F3 EXCEPT
                !.auth_flows = new_auth_flows,
                !.flow_objs = [i \in FlowIds |->
                    IF i \in dropped THEN [@[i] EXCEPT !.fate = "evicted"] ELSE @[i]]]
        ELSE F2

\* the code is stored under the state without looking the state up
handle_callback_AnyState(F, state, code) ==
    IF state \in FlowIds
    THEN [F EXCEPT !.flow_objs[state] = [@ EXCEPT !.code = code, !.completed = TRUE]]
    ELSE F

\* AuthService.handle_callback
handle_callback(F, state, code) ==
    IF state \in Range(F.auth_flows)
    THEN [F EXCEPT !.flow_objs[state] = [@ EXCEPT !.code = code, !.completed = TRUE]]
    ELSE F

NoState == 0

\* AuthService.get_auth_flow: the first flow of the project, or else the first
\* auto-detecting flow; a flow of the caller's session goes first
get_auth_flow(F, project_id, user_session) ==
    LET first(S) ==
            IF S = {} THEN NoState
            ELSE F.auth_flows[CHOOSE i \in DOMAIN F.auth_flows :
                     /\ F.auth_flows[i] \in S
                     /\ \A j \in DOMAIN F.auth_flows :
                           F.auth_flows[j] \in S => i <= j]
        pick(S) ==
            LET mine == {st \in S : /\ user_session # NoValue
                                     /\ F.flow_objs[st].user_session = user_session}
            IN  IF mine # {} THEN first(mine) ELSE first(S)
        by_project == IF project_id = NoValue THEN {}
                      ELSE {st \in Range(F.auth_flows) :
                              F.flow_objs[st].project_id = project_id}
        by_auto == {st \in Range(F.auth_flows) :
                      F.flow_objs[st].auto_project_detection}
    IN  IF by_project # {} THEN pick(by_project) ELSE pick(by_auto)

SetFlows(F) ==
    /\ auth_flows' = F.auth_flows
    /\ flow_objs' = F.flow_objs
    /\ servers' = F.servers
\* AuthService.create_auth_url.  The listener is started first; creating the
\* Flow object may then raise, which leaves the listener without a record.
CreateAuthUrlCall(project_id, user_session, outcome) ==
    LET state == next_id
        callback_port == find_available_port(servers)
        started == [CurFlows EXCEPT !.servers[state] =
                       [port |-> callback_port, running |-> TRUE, shutdowns |-> 0]]
        swept == IF Len(auth_flows) >= MAX_AUTH_FLOWS
                 THEN cleanup_auth_flows(started, time)
                 ELSE started
        flow_data ==
            [project_id |-> project_id, user_session |-> user_session,
             callback_port |-> callback_port, code |-> NoValue, completed |-> FALSE,
             created_at |-> time, auto_project_detection |-> project_id = NoValue,
             fate |-> "live"]
    IN  /\ next_id <= MaxStarts
        /\ IF outcome \in {"no_port", "server_failed"}
           THEN UNCHANGED <<auth_flows, flow_objs, servers, next_id>>
           ELSE IF outcome = "flow_failed"
           THEN /\ SetFlows([started EXCEPT !.flow_objs[state].fate = "unregistered"])
                /\ next_id' = next_id + 1
           ELSE /\ SetFlows([swept EXCEPT !.auth_flows = Append(@, state),
                                         !.flow_objs[state] = flow_data])
                /\ next_id' = next_id + 1
        /\ UNCHANGED <<flow_ticks, callers, credentials_cm, notFlow>>

CreateAuthUrl == \E project_id \in Projects, user_session \in Sessions,
                    outcome \in {"ok", "server_failed", "flow_failed"} :
    CreateAuthUrlCall(project_id, user_session, outcome) /\ UNCHANGED flow_result

\* AuthCallbackHandler.do_GET: a redirect with code and state reaches a
\* running listener
AuthCallback == \E listener \in FlowIds, state \in FlowIds :
    /\ servers[listener].running
    /\ state < next_id
    /\ SetFlows(handle_callback(CurFlows, state, "code"))
    /\ UNCHANGED <<flow_ticks, next_id, callers, flow_result, credentials_cm, notFlow>>

\* complete_auth_flow up to its first suspension: the lookup, then either the
\* wait for the callback or the code exchange
CompleteLookupCall(c, project_id, user_session) ==
    LET state == get_auth_flow(CurFlows, project_id, user_session)
    IN  /\ callers[c].phase = "idle"
        /\ IF state = NoState
           THEN UNCHANGED callers
           ELSE callers' = [callers EXCEPT ![c] =
                    [phase |-> IF flow_objs[state].code = NoValue
                               THEN "wait" ELSE "exchange",
                     state |-> state, waited |-> FALSE]]
        /\ UNCHANGED <<flow_ticks, auth_flows, flow_objs, servers, next_id,
                       credentials_cm, notFlow>>

CompleteLookup == \E c \in Callers, project_id \in Projects, user_session \in Sessions :
    CompleteLookupCall(c, project_id, user_session) /\ UNCHANGED flow_result

\* one poll of the wait loop that ends the wait: the code has arrived, or
\* the wait has lasted CALLBACK_WAIT seconds
\* the loop has no deadline: it ends only when the code arrives
CompleteWaitCall_NoDeadline(c) ==
    /\ callers[c].phase = "wait"
    /\ flow_objs[callers[c].state].code # NoValue
    /\ callers' = [callers EXCEPT ![c].phase = "exchange", ![c].waited = FALSE]
    /\ UNCHANGED <<flow_ticks, auth_flows, flow_objs, servers, next_id,
                   credentials_cm, notFlow>>

CompleteWaitCall(c) ==
    LET flow_data == flow_objs[callers[c].state]
    IN  /\ callers[c].phase = "wait"
        /\ \/ /\ flow_data.code # NoValue
              /\ callers' = [callers EXCEPT ![c].phase = "exchange",
                                            ![c].waited = FALSE]
           \/ /\ flow_data.code = NoValue
              /\ callers[c].waited
              /\ callers' = [callers EXCEPT ![c] = IdleCaller]
        /\ UNCHANGED <<flow_ticks, auth_flows, flow_objs, servers, next_id,
                       credentials_cm, notFlow>>

CompleteWait == \E c \in Callers : CompleteWaitCall(c) /\ UNCHANGED flow_result

\* the file name is built and returned but nothing is stored
save_credentials_NoStore(cm, project_id, t) == cm

\* AuthService.save_credentials
save_credentials(cm, project_id, t) ==
    LET filename == <<project_id, t>>
    IN  update_credential_state(
            store_credential(cm, filename, "oauth", t), filename,
            [error_codes |-> <<>>, disabled |-> FALSE, last_success |-> t,
             user_email |-> NoValue], t)

\* the rest of complete_auth_flow: code exchange, project detection, save,
\* listener shutdown and removal of the record
CompleteFinishCall(c, exchanged) ==
    LET state == callers[c].state
        project_id == DetectedProject
        closed == _shutdown_flow_server(CurFlows, state)
    IN  /\ callers[c].phase = "exchange"
        /\ callers' = [callers EXCEPT ![c] = IdleCaller]
        /\ IF ~exchanged
           THEN UNCHANGED <<auth_flows, flow_objs, servers, credentials_cm>>
           ELSE /\ credentials_cm' = save_credentials(credentials_cm, project_id, time)
                /\ IF state \in Range(auth_flows)
                   THEN SetFlows([closed EXCEPT
                            !.auth_flows = Remove(@, state),
                            !.flow_objs[state].fate = "completed"])
                   ELSE SetFlows(closed)
        /\ UNCHANGED <<flow_ticks, next_id, notFlow>>

CompleteFinish == \E c \in Callers, exchanged \in BOOLEAN :
    CompleteFinishCall(c, exchanged) /\ UNCHANGED flow_result

FlowTick ==
    /\ flow_ticks < MaxFlowTicks
    /\ flow_ticks' = flow_ticks + 1
    /\ callers' = [c \in Callers |->
                     IF callers[c].phase = "wait"
                     THEN [callers[c] EXCEPT !.waited = TickSeconds >= CALLBACK_WAIT]
                     ELSE callers[c]]
    /\ UNCHANGED <<auth_flows, flow_objs, servers, next_id, flow_result,
                   credentials_cm, notFlow>>

FlowNext ==
    \/ CreateAuthUrl
    \/ AuthCallback
    \/ CompleteLookup
    \/ CompleteWait
    \/ CompleteFinish
    \/ FlowTick

SpecFlow == Init /\ [][FlowNext]_vars

Expired(state) ==
    /\ flow_objs[state].fate \in {"live", "expired"}
    /\ time - flow_objs[state].created_at > FLOW_TTL

\* C9: a flow registered more than FLOW_TTL seconds ago and not completed is
\* returned by no complete_auth_flow lookup, and its listener is closed.
C9_ExpiredFlowGone ==
    \A state \in FlowIds :
        Expired(state) =>
            /\ \A project_id \in Projects, user_session \in Sessions :
                  get_auth_flow(CurFlows, project_id, user_session) # state
            /\ ~servers[state].running

\* the flows that left auth_flows
Removed(state) == flow_objs[state].fate \in {"completed", "evicted", "expired"}

\* C10: a registered flow has its one listener running; a flow removed by
\* completion, by the hard limit or by expiry has its listener closed, by
\* exactly one shutdown; no listener is shut down twice.
C10_ListenerClosedOnce ==
    \A state \in FlowIds :
        /\ state \in Range(auth_flows) =>
              /\ servers[state].running
              /\ servers[state].shutdowns = 0
              /\ \A other \in Range(auth_flows) \ {state} :
                    servers[other].port # servers[state].port
        /\ Removed(state) =>
              /\ ~servers[state].running
              /\ servers[state].shutdowns = 1
        /\ servers[state].shutdowns <= 1

\* one flow was completed and another was dropped by the sweep
C10_Witness ==
    /\ \E state \in FlowIds : flow_objs[state].fate = "completed"
    /\ \E state \in FlowIds : flow_objs[state].fate = "evicted"
(***************************************************************************)
(* SpecSweep: the orchestrator started from a flow table that is at the    *)
(* cap, with flows of different ages, so that the next create_auth_url     *)
(* sweeps.                                                                 *)
(***************************************************************************)
\* creation times of the flows already registered; the clock reads TickSeconds
SweepTimes == {0, 600, 1200}

SweepTable(created) ==
    /\ flow_ticks = 1
    /\ auth_flows = [i \in 1..MAX_AUTH_FLOWS |-> i]
    /\ flow_objs =
         [i \in FlowIds |->
            IF i <= MAX_AUTH_FLOWS
            THEN [project_id |-> NoValue, user_session |-> "s1",
                  callback_port |-> CALLBACK_PORT + i - 1, code |-> NoValue,
                  completed |-> FALSE, created_at |-> created[i],
                  auto_project_detection |-> TRUE, fate |-> "live"]
            ELSE NoFlow]
    /\ servers =
         [i \in FlowIds |->
            IF i <= MAX_AUTH_FLOWS
            THEN [port |-> CALLBACK_PORT + i - 1, running |-> TRUE, shutdowns |-> 0]
            ELSE NoServer]
    /\ next_id = MAX_AUTH_FLOWS + 1
    /\ callers = [c \in Callers |-> IdleCaller]
    /\ flow_result = NoResult

SweepInit ==
    /\ PoolInit /\ IsoIdle /\ ConcIdle /\ CacheIdle /\ UserIdle /\ StatsIdle /\ WsIdle
    /\ \E created \in [1..MAX_AUTH_FLOWS -> SweepTimes] :
          /\ \A i, j \in 1..MAX_AUTH_FLOWS : i <= j => created[i] <= created[j]
          /\ SweepTable(created)

SweepNext ==
    \/ CreateAuthUrl
    \/ AuthCallback
    \/ CompleteLookup
    \/ CompleteWait
    \/ CompleteFinish

SpecSweep == SweepInit /\ [][SweepNext]_vars

\* C11: no step leaves more than MAX_AUTH_FLOWS registered flows; a flow
\* that a create_auth_url sweep drops is no newer than any flow the sweep
\* keeps, and its listener is closed when its record is gone.
C11_CapAndEviction ==
    [][/\ Len(auth_flows') <= MAX_AUTH_FLOWS
       /\ \A st \in Range(auth_flows) \ Range(auth_flows') :
             flow_objs'[st].fate \in {"evicted", "expired"} =>
                /\ ~servers'[st].running
                /\ \A k \in Range(auth_flows) \cap Range(auth_flows') :
                      flow_objs[st].created_at <= flow_objs[k].created_at]_vars

\* a start at the cap dropped a flow that was older than one it kept
C11_Witness ==
    \E st \in FlowIds, k \in Range(auth_flows) :
        /\ flow_objs[st].fate = "evicted"
        /\ k <= MAX_AUTH_FLOWS
        /\ flow_objs[k].created_at > flow_objs[st].created_at
        /\ Len(auth_flows) = KeepFlows + 1

(***************************************************************************)
(* SpecOneFlow: the walk through one authorization flow.  One flow is      *)
(* started; the driver records in flow_result what each step of            *)
(* complete_auth_flow handed back to its caller.                           *)
(***************************************************************************)
\* the value complete_auth_flow returns at each of its steps ("pending":
\* the call goes on to its next step)
CompleteLookupReturn(project_id, user_session) ==
    IF get_auth_flow(CurFlows, project_id, user_session) = NoState
    THEN "flow_not_found" ELSE "pending"

CompleteWaitReturn(c) ==
    IF flow_objs[callers[c].state].code # NoValue
    THEN "pending" ELSE "callback_timeout"

CompleteFinishReturn(c, exchanged) ==
    IF ~exchanged THEN "exchange_failed"
    ELSE IF callers[c].state \in Range(auth_flows) THEN "success"
    ELSE "key_error"

OneStart == next_id = 1 /\ CreateAuthUrl

OneRedirect == AuthCallback

OneLookup == \E c \in Callers, project_id \in Projects, user_session \in Sessions :
    /\ CompleteLookupCall(c, project_id, user_session)
    /\ flow_result' = [outcome |-> CompleteLookupReturn(project_id, user_session),
                       state |-> get_auth_flow(CurFlows, project_id, user_session),
                       file_path |-> NoFile]

OneWaitOf(c) ==
    /\ CompleteWaitCall(c)
    /\ flow_result' = [outcome |-> CompleteWaitReturn(c),
                       state |-> callers[c].state, file_path |-> NoFile]

OneWait == \E c \in Callers : OneWaitOf(c)

OneFinishOf(c) == \E exchanged \in BOOLEAN :
    /\ CompleteFinishCall(c, exchanged)
    /\ flow_result' = [outcome |-> CompleteFinishReturn(c, exchanged),
                       state |-> callers[c].state,
                       file_path |-> IF CompleteFinishReturn(c, exchanged) = "success"
                                     THEN <<DetectedProject, time>> ELSE NoFile]

OneFinish == \E c \in Callers : OneFinishOf(c)

\* time passes; the model's clock stops at MaxFlowTicks, the waits go on
\* elapsing
OneTick ==
    /\ flow_ticks' = IF flow_ticks < MaxFlowTicks THEN flow_ticks + 1 ELSE flow_ticks
    /\ callers' = [c \in Callers |->
                     IF callers[c].phase = "wait"
                     THEN [callers[c] EXCEPT !.waited = TickSeconds >= CALLBACK_WAIT]
                     ELSE callers[c]]
    /\ UNCHANGED <<auth_flows, flow_objs, servers, next_id, flow_result,
                   credentials_cm, notFlow>>

OneFlowNext ==
    \/ OneStart
    \/ OneRedirect
    \/ OneLookup
    \/ OneWait
    \/ OneFinish
    \/ OneTick

SpecOneFlow == Init /\ [][OneFlowNext]_vars

\* C12: a flow started without a project id, whose redirect delivered the
\* code and whose completion resolves one project, returns the name of a
\* credential that is stored by then, with the flow's record removed and its
\* listener stopped; a flow is never torn down by completion before its
\* credential is stored; and a completion looked up after that finds no flow
C12_FlowScenario ==
    [][/\ flow_result'.outcome = "success" =>
            /\ get_credential(credentials_cm', flow_result'.file_path) = "oauth"
            /\ flow_result'.state \notin Range(auth_flows')
            /\ ~servers'[flow_result'.state].running
            /\ flow_objs[flow_result'.state].auto_project_detection
            /\ flow_objs[flow_result'.state].code # NoValue
       /\ \A st \in FlowIds :
            flow_objs'[st].fate = "completed" =>
                \E f \in Range(list_credentials(credentials_cm')) : f[1] = DetectedProject
       /\ (/\ \E st \in FlowIds : flow_objs[st].fate = "completed"
           /\ flow_result'.outcome # "pending"
           /\ flow_result'.state = NoState
           /\ flow_result' # flow_result)
            => flow_result'.outcome = "flow_not_found"
      ]_vars

C12_Witness ==
    /\ flow_result.outcome = "flow_not_found"
    /\ flow_objs[1].fate = "completed"
    /\ flow_objs[1].project_id = NoValue
    /\ get_credential(credentials_cm, <<DetectedProject, 0>>) = "oauth"
    /\ auth_flows = <<>>



(***************************************************************************)
(* SpecOneFlowFair: the same walk under the event loop's scheduling.      *)
(* Every coroutine suspended in asyncio.sleep(0.5) is resumed, the wall    *)
(* clock advances, and every awaited exchange returns or raises.           *)
(***************************************************************************)
SpecOneFlowFair ==
    /\ Init
    /\ [][OneFlowNext]_vars
    /\ WF_vars(OneTick)
    /\ \A c \in Callers : WF_vars(OneWaitOf(c)) /\ WF_vars(OneFinishOf(c))

\* C13: every complete_auth_flow call returns; a call leaves its wait with
\* the "Callback timeout" failure only when the wait has lasted
\* CALLBACK_WAIT seconds and the flow still has no code, and a call whose
\* flow has received the code leaves the wait for the token exchange
C13_WaitTerminates ==
    /\ \A c \in Callers : (callers[c].phase # "idle") ~> (callers[c].phase = "idle")
    /\ [][\A c \in Callers :
            callers[c].phase = "wait" /\ callers'[c].phase # "wait" =>
                IF flow_objs[callers[c].state].code = NoValue
                THEN /\ callers[c].waited
                     /\ callers'[c].phase = "idle"
                     /\ flow_result'.outcome = "callback_timeout"
                ELSE /\ callers'[c].phase = "exchange"
                     /\ flow_result'.outcome = "pending"]_vars

C13_Witness ==
    /\ flow_result.outcome = "callback_timeout"
    /\ \E c \in Callers :
          /\ callers[c].phase = "wait"
          /\ callers[c].waited
          /\ flow_objs[callers[c].state].code # NoValue



(***************************************************************************)
(* SpecPorts: create_auth_url calls that overlap.  A call suspends only at *)
(* its awaits: the port probe, the HTTPServer bind and the thread start    *)
(* run without suspension (StartListen); the awaits of the client id and   *)
(* secret follow; the sweep and the registration of the record run without *)
(* suspension again (StartRegister).  A caller in phase "flow" is between  *)
(* the two.                                                                *)
(***************************************************************************)
StartListen == \E c \in Callers, bound \in BOOLEAN :
    LET state == next_id
        callback_port == find_available_port(servers)
    IN  /\ callers[c].phase = "idle"
        /\ next_id <= MaxStarts
        /\ IF bound
           THEN /\ servers' = [servers EXCEPT ![state] =
                       [port |-> callback_port, running |-> TRUE, shutdowns |-> 0]]
                /\ callers' = [callers EXCEPT ![c] =
                       [phase |-> "flow", state |-> state, waited |-> FALSE]]
                /\ next_id' = next_id + 1
           ELSE UNCHANGED <<servers, callers, next_id>>
        /\ UNCHANGED <<flow_ticks, auth_flows, flow_objs, flow_result,
                       credentials_cm, notFlow>>

StartRegister == \E c \in Callers, project_id \in Projects, user_session \in Sessions,
                    created \in BOOLEAN :
    LET state == callers[c].state
        swept == IF Len(auth_flows) >= MAX_AUTH_FLOWS
                 THEN cleanup_auth_flows(CurFlows, time)
                 ELSE CurFlows
        flow_data ==
            [project_id |-> project_id, user_session |-> user_session,
             callback_port |-> servers[state].port, code |-> NoValue,
             completed |-> FALSE, created_at |-> time,
             auto_project_detection |-> project_id = NoValue, fate |-> "live"]
    IN  /\ callers[c].phase = "flow"
        /\ callers' = [callers EXCEPT ![c] = IdleCaller]
        /\ IF created
           THEN SetFlows([swept EXCEPT !.auth_flows = Append(@, state),
                                       !.flow_objs[state] = flow_data])
           ELSE SetFlows([CurFlows EXCEPT !.flow_objs[state].fate = "unregistered"])
        /\ UNCHANGED <<flow_ticks, next_id, flow_result, credentials_cm, notFlow>>

PortsNext ==
    \/ StartListen
    \/ StartRegister
    \/ AuthCallback
    \/ CompleteLookup
    \/ CompleteWait
    \/ CompleteFinish

SpecPorts == Init /\ [][PortsNext]_vars

\* C14: no two registered flows hold the same callback port, and each holds
\* the port its own listener is bound to, also while other create_auth_url
\* calls are between their bind and their registration
C14_PortsDistinct ==
    \A a, b \in Range(auth_flows) :
        /\ flow_objs[a].callback_port = servers[a].port
        /\ servers[a].running
        /\ a # b => flow_objs[a].callback_port # flow_objs[b].callback_port

\* two flows are registered, and one of them holds the port a completed
\* flow held before it
C14_Witness ==
    /\ Len(auth_flows) = 2
    /\ \E st \in FlowIds, a \in Range(auth_flows) :
          /\ flow_objs[st].fate = "completed"
          /\ flow_objs[st].callback_port = flow_objs[a].callback_port



(***************************************************************************)
(* SpecLogin: registration, login and token authentication.                *)
(***************************************************************************)
MaxLogins == 2
TOKEN_TTL == 2592000   \* 30 * 24 * 3600 seconds

\* sha256 of password + salt: one digest per password
_hash_password(password) == <<"sha256", password, "gcli_static_salt">>

\* secrets.token_hex(8): an id no row has had
FreshUserId(U) ==
    (CHOOSE m \in {U[u].id : u \in DOMAIN U} : \A u \in DOMAIN U : U[u].id <= m) + 1

\* UserManager.register: the INSERT fails on the UNIQUE username
register(U, username, password, role) ==
    IF U[username].present THEN U
    ELSE [U EXCEPT ![username] =
             [present |-> TRUE,
              id |-> FreshUserId(U),
              password_hash |-> _hash_password(password),
              role |-> role, disabled |-> FALSE, created_as |-> role]]

\* a row of the tokens table; a deleted row stays in place, marked removed,
\* so that the token string is never issued again
TokenRow(user_id, expires_at) ==
    [user_id |-> user_id, expires_at |-> expires_at, removed |-> FALSE]

\* what UserManager.login returns: None, or a dict with these keys
LoginNone == [is_none |-> TRUE, keys |-> <<>>, token |-> 0, user_id |-> 0]

LoginDict(token, user_id) ==
    [is_none |-> FALSE, keys |-> <<"token", "user_id", "role", "api_key">>,
     token |-> token, user_id |-> user_id]

RowMatches(U, username, password) ==
    /\ U[username].present
    /\ U[username].password_hash = _hash_password(password)

\* UserManager.login: the tokens table after the call, and the returned value
user_manager_login(U, T, username, password, t) ==
    IF RowMatches(U, username, password) /\ ~U[username].disabled
    THEN [tokens |-> Append(T, TokenRow(U[username].id, t + TOKEN_TTL)),
          result |-> LoginDict(Len(T) + 1, U[username].id)]
    ELSE [tokens |-> T, result |-> LoginNone]

\* "token, is_admin, user_id = <value>": iterating a dict yields its keys,
\* and the number of items must be three
UnpackThree(value) ==
    IF value.is_none THEN [raised |-> "TypeError", token |-> "", user_id |-> ""]
    ELSE IF Len(value.keys) # 3 THEN [raised |-> "ValueError", token |-> "", user_id |-> ""]
    ELSE [raised |-> "none", token |-> value.keys[1], user_id |-> value.keys[3]]

\* the answer of POST /auth/login to the value UserManager.login returned;
\* an exception that leaves the handler is answered with 500
login_status(value) ==
    IF UnpackThree(value).raised # "none" THEN 500
    ELSE IF UnpackThree(value).token # "" THEN 200
    ELSE 401

\* UserManager.verify_token: the user id, or 0 for None
verify_token(U, T, token, t) ==
    IF token \notin 1..Len(T) THEN 0
    ELSE IF T[token].removed THEN 0
    ELSE IF ~\E u \in DOMAIN U : U[u].present /\ U[u].id = T[token].user_id
    THEN 0
    ELSE IF \E u \in DOMAIN U : U[u].present /\ U[u].id = T[token].user_id /\ U[u].disabled
    THEN 0
    ELSE IF t < T[token].expires_at THEN T[token].user_id
    ELSE 0

\* the tokens table after UserManager.verify_token: the token of an enabled
\* user that has expired is deleted
verify_token_tokens(U, T, token, t) ==
    IF /\ token \in 1..Len(T)
       /\ ~T[token].removed
       /\ \E u \in DOMAIN U : U[u].present /\ U[u].id = T[token].user_id /\ ~U[u].disabled
       /\ ~(t < T[token].expires_at)
    THEN [T EXCEPT ![token].removed = TRUE]
    ELSE T

Register == \E username \in Usernames, password \in Passwords :
    /\ users' = register(users, username, password, "user")
    /\ auth_resp' = [NoAuthResp EXCEPT !.op = "register", !.username = username,
                        !.password = password,
                        !.status = IF users[username].present THEN 400 ELSE 200]
    /\ UNCHANGED <<tokens, notUser>>

Login == \E username \in Usernames, password \in Passwords :
    LET called == user_manager_login(users, tokens, username, password, now)
        status == login_status(called.result)
    IN  /\ Len(tokens) < MaxLogins
        /\ tokens' = called.tokens
        /\ auth_resp' = [NoAuthResp EXCEPT !.op = "login", !.username = username,
                            !.password = password, !.status = status]
        /\ UNCHANGED <<users, notUser>>

\* get_current_user_id on a request that carries the bearer token
Authenticate == \E token \in 1..MaxLogins :
    LET user_id == verify_token(users, tokens, token, now)
    IN  /\ auth_resp' = [NoAuthResp EXCEPT !.op = "request", !.token = token,
                            !.user_id = user_id,
                            !.status = IF user_id = 0 THEN 401 ELSE 200]
        /\ tokens' = verify_token_tokens(users, tokens, token, now)
        /\ UNCHANGED <<users, notUser>>

\* UserManager.update_user_status(user_id, disabled)
UpdateUserStatus == \E username \in Usernames, disabled \in BOOLEAN :
    /\ users[username].present
    /\ users' = [users EXCEPT ![username].disabled = disabled]
    /\ UNCHANGED <<tokens, auth_resp, notUser>>

LoginNext ==
    \/ Register
    \/ Login
    \/ Authenticate
    \/ UpdateUserStatus

SpecLogin == Init /\ [][LoginNext]_vars

\* C15: a login with the username and password of a registered, enabled user
\* is answered 200 with a token that verify_token resolves to that user
C15_LoginAfterRegister ==
    (/\ auth_resp.op = "login"
     /\ RowMatches(users, auth_resp.username, auth_resp.password)
     /\ ~users[auth_resp.username].disabled)
        => /\ auth_resp.status = 200
           /\ verify_token(users, tokens, auth_resp.token, now)
                 = users[auth_resp.username].id



(***************************************************************************)
(* SpecUpsert: the pool written with two different secret blobs.  The      *)
(* driver records the call it made last.                                   *)
(***************************************************************************)
SecretBlobs == {"k1", "k2"}

Called(op, name, blob) == [op |-> op, name |-> name, blob |-> blob]

UpsertAdd == \E n \in CredNames, b \in SecretBlobs :
    /\ credentials_cm' = add_credential(credentials_cm, n, b, now)
    /\ lastOp' = Called("add", n, b)
    /\ UNCHANGED <<config_cm, current_index, now, response, notPool>>

\* the removal is recorded with the blob it found under the name
UpsertRemove == \E n \in CredNames :
    /\ credentials_cm' = remove_credential(credentials_cm, n)
    /\ lastOp' = Called("remove", n, get_credential(credentials_cm, n))
    /\ UNCHANGED <<config_cm, current_index, now, response, notPool>>

UpsertSetDisabled == \E n \in CredNames, b \in BOOLEAN :
    /\ credentials_cm' = set_cred_disabled(credentials_cm, n, b, now)
    /\ lastOp' = Called("set_disabled", n, IF b THEN "True" ELSE "False")
    /\ UNCHANGED <<config_cm, current_index, now, response, notPool>>

UpsertRecord == \E n \in CredNames, ok \in BOOLEAN, code \in StatusCodes :
    /\ credentials_cm' = record_api_call_result(credentials_cm, n, ok, code, now)
    /\ lastOp' = Called("record", n, NoValue)
    /\ UNCHANGED <<config_cm, current_index, now, response, notPool>>

\* a selection is recorded together with the call that preceded it
UpsertSelect ==
    LET sel == get_valid_credential(get_credential_order(config_cm, credentials_cm),
                                    credentials_cm, current_index, now)
    IN  /\ lastOp.op # "none"
        /\ lastOp' = [op |-> "select", name |-> sel.cred, blob |-> NoValue,
                      prev |-> [op |-> lastOp.op, name |-> lastOp.name,
                                blob |-> lastOp.blob]]
        /\ current_index' = sel.index
        /\ UNCHANGED <<credentials_cm, config_cm, now, response, notPool>>

UpsertNext ==
    \/ UpsertAdd
    \/ UpsertRemove
    \/ UpsertSetDisabled
    \/ UpsertRecord
    \/ UpsertSelect

SpecUpsert == Init /\ [][UpsertNext]_vars

\* C18: a step that replaces the blob of an existing record leaves that
\* record's state and stats as they were; a step that creates a record gives
\* it disabled = False, no error codes, no cooldown and last_success = now;
\* either way every other record is untouched
C18_AddFrame ==
    [][\A n \in CredNames :
          LET created == ~cm_has(credentials_cm, n) /\ cm_has(credentials_cm', n)
              replaced == /\ cm_has(credentials_cm, n)
                          /\ cm_has(credentials_cm', n)
                          /\ get_credential(credentials_cm', n)
                                # get_credential(credentials_cm, n)
          IN  /\ replaced =>
                    /\ credentials_cm'.val[n].state = credentials_cm.val[n].state
                    /\ credentials_cm'.val[n].stats = credentials_cm.val[n].stats
              /\ created =>
                    /\ ~credentials_cm'.val[n].state.disabled
                    /\ credentials_cm'.val[n].state.error_codes = <<>>
                    /\ credentials_cm'.val[n].state.cooldown_until = NoCooldown
                    /\ credentials_cm'.val[n].state.last_success = now
              /\ (created \/ replaced) =>
                    \A m \in Range(credentials_cm.keys) \ {n} :
                        /\ cm_has(credentials_cm', m)
                        /\ credentials_cm'.val[m] = credentials_cm.val[m]]_vars

\* the last call was an add with the second blob on a record that is
\* disabled and has an error code: the record was there before the add
C18_Witness ==
    /\ lastOp.op = "add"
    /\ lastOp.blob = "k2"
    /\ cm_has(credentials_cm, lastOp.name)
    /\ get_credential(credentials_cm, lastOp.name) = "k2"
    /\ credentials_cm.val[lastOp.name].state.disabled
    /\ credentials_cm.val[lastOp.name].state.error_codes # <<>>

C20_AddGetList ==
    lastOp.op = "add" =>
        /\ get_credential(credentials_cm, lastOp.name) = lastOp.blob
        /\ \E i \in 1..Len(list_credentials(credentials_cm)) :
              list_credentials(credentials_cm)[i] = lastOp.name

\* the add replaced the other blob under a name that is listed second
C20_Witness ==
    /\ lastOp.op = "add"
    /\ lastOp.blob = "k2"
    /\ Len(list_credentials(credentials_cm)) = 2
    /\ list_credentials(credentials_cm)[2] = lastOp.name
    /\ get_credential(credentials_cm, list_credentials(credentials_cm)[1]) = "k1"

\* HTTP status of POST /creds/action for enable and disable: the stored
\* credential is looked up first, and a missing or empty one is answered 404
creds_action_status(cm, filename) ==
    IF get_credential(cm, filename) \in {NoValue, EmptyCredential} THEN 404 ELSE 200

C21_SetDisabledFrame ==
    [][(lastOp'.op = "set_disabled" /\ cm_has(credentials_cm, lastOp'.name)) =>
          LET n == lastOp'.name
              b == lastOp'.blob = "True"
              old == credentials_cm.val[n]
              new == credentials_cm'.val[n]
          IN  /\ credentials_cm'.keys = credentials_cm.keys
              /\ new.state.disabled = b
              /\ new.state.cooldown_until = old.state.cooldown_until
              /\ new.state.error_codes = old.state.error_codes
              /\ new.state.last_success = old.state.last_success
              /\ new.state.user_email = old.state.user_email
              /\ new.credential = old.credential
              /\ new.stats = old.stats
              /\ \A m \in Range(credentials_cm.keys) \ {n} :
                    credentials_cm'.val[m] = credentials_cm.val[m]
              /\ set_cred_disabled(credentials_cm', n, b, now') = credentials_cm']_vars

\* the last call disabled a record that was disabled already and that has an
\* error code and a cooldown
C21_Witness ==
    /\ lastOp.op = "set_disabled"
    /\ lastOp.blob = "True"
    /\ cm_has(credentials_cm, lastOp.name)
    /\ PoolState(lastOp.name).disabled
    /\ PoolState(lastOp.name).error_codes # <<>>
    /\ PoolState(lastOp.name).cooldown_until # NoCooldown
    /\ get_credential(credentials_cm, lastOp.name) = "k2"



(***************************************************************************)
(* SpecOrder: the rotation order stored under "_credential_order" and the  *)
(* selections made from it.  The driver keeps the run of selections made   *)
(* since the last pool or order change.                                    *)
(***************************************************************************)
MaxOrderLen == 2
MaxRun == 2

\* the lists set_credential_order accepts: any list of names
OrderLists == UNION {[1..k -> CredNames] : k \in 0..MaxOrderLen}

\* MySQLManager.set_credential_order: the list is stored as given
set_credential_order(cfg, order) == cm_set(cfg, "_credential_order", order)

SetCredentialOrder == \E order \in OrderLists :
    /\ config_cm' = set_credential_order(config_cm, order)
    /\ lastOp' = Called("set_order", NoCred, NoValue)
    /\ UNCHANGED <<credentials_cm, current_index, now, response, notPool>>

OrderAdd == \E n \in CredNames :
    /\ credentials_cm' = add_credential(credentials_cm, n, "k1", now)
    /\ lastOp' = Called("add", n, "k1")
    /\ UNCHANGED <<config_cm, current_index, now, response, notPool>>

OrderSelect ==
    LET sel == get_valid_credential(get_credential_order(config_cm, credentials_cm),
                                    credentials_cm, current_index, now)
        run == IF lastOp.op = "select" THEN lastOp.run ELSE <<>>
    IN  /\ Len(run) < MaxRun
        /\ lastOp' = [op |-> "select", name |-> sel.cred, blob |-> NoValue,
                      run |-> Append(run, sel.cred)]
        /\ current_index' = sel.index
        /\ UNCHANGED <<credentials_cm, config_cm, now, response, notPool>>

OrderNext ==
    \/ OrderAdd
    \/ UpsertRemove
    \/ UpsertSetDisabled
    \/ SetCredentialOrder
    \/ OrderSelect

SpecOrder == Init /\ [][OrderNext]_vars

\* the last k entries of a run
LastOf(run, k) == {run[i] : i \in (Len(run) - k + 1)..Len(run)}

UserProjectLists == {<<>>, <<"p1">>, <<"p1", "p2">>}

\* select_default_project: one of the projects, or None
DefaultChoices(user_projects) == {NoValue} \cup Range(user_projects)

Detected(outcome, project_id, available_projects) ==
    [outcome |-> outcome, project_id |-> project_id,
     available_projects |-> available_projects]

\* with several projects and no default the first one is taken
detect_project_FirstOfMany(project_id, auto_project_detection, user_projects, chosen) ==
    LET found == IF ~(auto_project_detection /\ project_id = NoValue) THEN project_id
                 ELSE IF Len(user_projects) = 1 \/ chosen = NoValue
                 THEN user_projects[1]
                 ELSE chosen
    IN  IF auto_project_detection /\ project_id = NoValue /\ user_projects = <<>>
        THEN Detected("no_projects", NoValue, <<>>)
        ELSE IF found = NoValue THEN Detected("missing_project", NoValue, <<>>)
        ELSE Detected("ok", found, <<>>)

\* complete_auth_flow, "Auto detection logic" and the test that follows it:
\* the project the credential is saved under, or the failure returned instead
detect_project(project_id, auto_project_detection, user_projects, chosen) ==
    LET auto == auto_project_detection /\ project_id = NoValue
        found == IF ~auto THEN project_id
                 ELSE IF Len(user_projects) = 1 THEN user_projects[1]
                 ELSE chosen
    IN  IF auto /\ user_projects = <<>>
        THEN Detected("no_projects", NoValue, <<>>)
        ELSE IF auto /\ Len(user_projects) > 1 /\ chosen = NoValue
        THEN Detected("selection_required", NoValue, user_projects)
        ELSE IF found = NoValue THEN Detected("missing_project", NoValue, <<>>)
        ELSE Detected("ok", found, <<>>)

\* what a caller of create_auth_url or complete_auth_flow gets: a dict with
\* "success" and "error", or an exception
Returned(success, error) == [raised |-> FALSE, success |-> success, error |-> error]
RaisedToCaller == [raised |-> TRUE, success |-> FALSE, error |-> NoValue]

\* complete_auth_flow: the dict returned for each way the call can end; an
\* exception of the exchange, the detection, the save or the teardown is
\* caught by the inner handler, any other by the outer one
complete_auth_flow_result(outcome) ==
    CASE outcome = "success" -> Returned(TRUE, NoValue)
      [] outcome = "flow_not_found" -> Returned(FALSE, "flow not found")
      [] outcome = "missing_project" -> Returned(FALSE, "Missing Project ID")
      [] outcome = "callback_timeout" -> Returned(FALSE, "Callback timeout")
      [] outcome = "no_projects" -> Returned(FALSE, "No projects found")
      [] outcome = "selection_required" -> Returned(FALSE, "Multiple projects found")
      [] OTHER -> Returned(FALSE, "str(e)")

\* the rest of complete_auth_flow after the wait, with the detection
ProjectsFinishCall(c, exchanged, user_projects, chosen) ==
    LET state == callers[c].state
        flow_data == flow_objs[state]
        d == detect_project(NoValue, flow_data.auto_project_detection,
                            user_projects, chosen)
        closed == _shutdown_flow_server(CurFlows, state)
        saved == exchanged /\ d.outcome = "ok"
        outcome == IF ~exchanged THEN "exchange_failed"
                   ELSE IF d.outcome # "ok" THEN d.outcome
                   ELSE IF state \in Range(auth_flows) THEN "success"
                   ELSE "key_error"
    IN  /\ callers[c].phase = "exchange"
        /\ callers' = [callers EXCEPT ![c] = IdleCaller]
        /\ IF ~saved
           THEN UNCHANGED <<auth_flows, flow_objs, servers, credentials_cm>>
           ELSE /\ credentials_cm' = save_credentials(credentials_cm, d.project_id, time)
                /\ IF state \in Range(auth_flows)
                   THEN SetFlows([closed EXCEPT
                            !.auth_flows = Remove(@, state),
                            !.flow_objs[state].fate = "completed"])
                   ELSE SetFlows(closed)
        /\ flow_result' =
              [outcome |-> outcome,
               returned |-> complete_auth_flow_result(outcome),
               state |-> state,
               file_path |-> IF saved THEN <<d.project_id, time>> ELSE NoFile,
               available_projects |-> IF exchanged THEN d.available_projects ELSE <<>>,
               user_projects |-> user_projects,
               chosen |-> chosen,
               exchanged |-> exchanged]
        /\ UNCHANGED <<flow_ticks, next_id, notFlow>>

ProjectsFinish == \E c \in Callers, exchanged \in BOOLEAN,
                     user_projects \in UserProjectLists :
                  \E chosen \in DefaultChoices(user_projects) :
    ProjectsFinishCall(c, exchanged, user_projects, chosen)

ProjectsNext ==
    \/ CreateAuthUrl
    \/ AuthCallback
    \/ CompleteLookup
    \/ CompleteWait
    \/ ProjectsFinish

SpecProjects == Init /\ [][ProjectsNext]_vars

\* a step in which some caller's code exchange ended
FinishStep == \E c \in Callers :
    callers[c].phase = "exchange" /\ callers'[c].phase = "idle"

\* C23: when complete_auth_flow has exchanged the code of a flow started
\* without a project, an account with no project gives the failure
\* "No projects found", an account with one project has the credential saved
\* under that project, and an account with several projects and no default
\* gives the failure that asks for a selection and carries the project list;
\* in those two failures no credential is stored and the flow record, its
\* code and its listener stay as they were
C23_ProjectDetection ==
    [][(FinishStep /\ flow_result'.exchanged) =>
          LET r == flow_result'
              n == Len(r.user_projects)
          IN  /\ n = 0 => r.outcome = "no_projects"
              /\ n = 1 => /\ r.outcome \in {"success", "key_error"}
                          /\ r.file_path = <<r.user_projects[1], time>>
                          /\ cm_has(credentials_cm', r.file_path)
              /\ (n > 1 /\ r.chosen = NoValue)
                    => /\ r.outcome = "selection_required"
                       /\ r.available_projects = r.user_projects
              /\ r.outcome \in {"no_projects", "selection_required"}
                    => /\ credentials_cm' = credentials_cm
                       /\ auth_flows' = auth_flows
                       /\ flow_objs' = flow_objs
                       /\ servers' = servers]_vars

\* a completion asked for a selection among two projects and left its flow
\* registered with its listener running, next to a credential saved earlier
C23_Witness ==
    /\ flow_result.outcome = "selection_required"
    /\ flow_result.available_projects = <<"p1", "p2">>
    /\ flow_result.state \in Range(auth_flows)
    /\ servers[flow_result.state].running
    /\ credentials_cm.keys = << <<"p1", 0>> >>

\* C29: a completion stores a credential only from a flow that no
\* completion has stored one from before, and a completion that stored a
\* credential reports success
C29_OneCredentialPerFlow ==
    [][FinishStep =>
          /\ flow_result'.file_path # NoFile =>
                flow_objs[flow_result'.state].fate # "completed"
          /\ flow_result'.outcome # "success" => flow_result'.file_path = NoFile]_vars



(***************************************************************************)
(* SpecResults: what create_auth_url and complete_auth_flow hand to their  *)
(* caller.  Each step records the way the call ended and the value the     *)
(* caller got.                                                             *)
(***************************************************************************)
\* the ways create_auth_url can end: no port could be bound, the listener
\* could not be created, or a later statement raised
StartOutcomes == {"ok", "no_port", "server_failed", "flow_failed"}

\* listeners started in SpecResults
MaxListeners == 1

\* the body of create_auth_url is not inside a try block
create_auth_url_result_NoOuterTry(outcome) ==
    CASE outcome = "ok" -> Returned(TRUE, NoValue)
      [] outcome = "server_failed" -> Returned(FALSE, "str(e)")
      [] OTHER -> RaisedToCaller

\* create_auth_url: a failure to create the listener is caught by the inner
\* handler, any other exception by the outer one
create_auth_url_result(outcome) ==
    CASE outcome = "ok" -> Returned(TRUE, NoValue)
      [] outcome = "server_failed" -> Returned(FALSE, "str(e)")
      [] OTHER -> Returned(FALSE, "str(e)")

\* get_user_projects may also answer with a project that has no "projectId"
ResultProjectLists == UserProjectLists \cup {<<NoValue>>}

ResultStart == \E project_id \in Projects, user_session \in Sessions,
                  outcome \in StartOutcomes :
    /\ outcome \in {"ok", "flow_failed"} => next_id <= MaxListeners
    /\ CreateAuthUrlCall(project_id, user_session, outcome)
    /\ flow_result' = [outcome |-> outcome,
                       returned |-> create_auth_url_result(outcome),
                       state |-> IF outcome = "ok" THEN next_id ELSE NoState,
                       file_path |-> NoFile]

ResultLookup == \E c \in Callers, project_id \in Projects, user_session \in Sessions :
    /\ CompleteLookupCall(c, project_id, user_session)
    /\ flow_result' =
          [outcome |-> CompleteLookupReturn(project_id, user_session),
           returned |-> complete_auth_flow_result(
                            CompleteLookupReturn(project_id, user_session)),
           state |-> get_auth_flow(CurFlows, project_id, user_session),
           file_path |-> NoFile]

ResultWait == \E c \in Callers :
    /\ CompleteWaitCall(c)
    /\ flow_result' = [outcome |-> CompleteWaitReturn(c),
                       returned |-> complete_auth_flow_result(CompleteWaitReturn(c)),
                       state |-> callers[c].state, file_path |-> NoFile]

ResultFinish == \E c \in Callers, exchanged \in BOOLEAN,
                   user_projects \in ResultProjectLists :
                \E chosen \in DefaultChoices(user_projects) :
    ProjectsFinishCall(c, exchanged, user_projects, chosen)

ResultsNext ==
    \/ ResultStart
    \/ AuthCallback
    \/ ResultLookup
    \/ ResultWait
    \/ ResultFinish
    \/ OneTick

SpecResults == Init /\ [][ResultsNext]_vars

\* C24: whatever way a call of create_auth_url or complete_auth_flow ends,
\* the caller gets a value and no exception; when the call failed the value
\* has success False and an error text, otherwise success True
C24_NeverRaises ==
    (flow_result.outcome \notin {"none", "pending"})
        => /\ ~flow_result.returned.raised
           /\ flow_result.returned.success = (flow_result.outcome \in {"ok", "success"})
           /\ ~flow_result.returned.success => flow_result.returned.error # NoValue

\* a start failed for want of a port while an earlier flow was registered
\* and a caller was waiting for its redirect
C24_Witness ==
    /\ flow_result.outcome = "no_port"
    /\ ~flow_result.returned.success
    /\ auth_flows # <<>>
    /\ \E c \in Callers : callers[c].phase = "wait"

\* C30: every running callback listener is the listener of a registered
\* flow, so a create_auth_url that returned a failure has left no listener
\* running
C30_ListenersRegistered ==
    \A st \in FlowIds : servers[st].running => st \in Range(auth_flows)



(***************************************************************************)
(* SpecRedirect: redirects arriving at a callback listener, with states    *)
(* that are registered, were registered once, or were never handed out.    *)
(***************************************************************************)
RedirectStates == {NoState} \cup FlowIds
RedirectCodes == {"code", "code2", NoValue}

\* do_GET: handle_callback is called only when the query has a code and a
\* state; its return value decides between 200 and 400
do_GET_status(F, state, code) ==
    IF code # NoValue /\ state # NoState /\ state \in Range(F.auth_flows)
    THEN 200 ELSE 400

RedirectGet == \E listener \in FlowIds, state \in RedirectStates,
                  code \in RedirectCodes :
    /\ servers[listener].running
    /\ SetFlows(IF code # NoValue /\ state # NoState
                THEN handle_callback(CurFlows, state, code)
                ELSE CurFlows)
    /\ flow_result' = [outcome |-> IF do_GET_status(CurFlows, state, code) = 200
                                   THEN "accepted" ELSE "rejected",
                       state |-> state, file_path |-> NoFile, code |-> code]
    /\ UNCHANGED <<flow_ticks, next_id, callers, credentials_cm, notFlow>>

RedirectNext ==
    \/ CreateAuthUrl
    \/ FlowTick
    \/ RedirectGet

SpecRedirect == Init /\ [][RedirectNext]_vars

\* a step that is neither a start nor a tick of the clock
RedirectStep ==
    /\ next_id' = next_id
    /\ flow_ticks' = flow_ticks
    /\ flow_result'.outcome \in {"accepted", "rejected"}

\* C25: a redirect that carries a code is accepted exactly when its state is
\* the state of a registered flow; an accepted redirect stores its code and
\* completed = True in the record of that state and changes no other
\* record; a rejected redirect changes no record
C25_RedirectAccepted ==
    [][RedirectStep =>
          LET r == flow_result'
          IN  /\ r.code # NoValue =>
                    (r.outcome = "accepted" <=> r.state \in Range(auth_flows))
              /\ r.outcome = "accepted" =>
                    flow_objs' = [flow_objs EXCEPT ![r.state].code = r.code,
                                                   ![r.state].completed = TRUE]
              /\ r.outcome = "rejected" => flow_objs' = flow_objs
              /\ auth_flows' = auth_flows
              /\ servers' = servers]_vars

\* a redirect for a flow that was dropped by the sweep has been rejected
\* while a registered flow holds the code of an earlier redirect
C25_Witness ==
    /\ flow_result.outcome = "rejected"
    /\ flow_result.code = "code"
    /\ flow_result.state # NoState
    /\ flow_objs[flow_result.state].fate = "evicted"
    /\ flow_objs[flow_result.state].code = NoValue
    /\ \E st \in Range(auth_flows) : flow_objs[st].completed



(***************************************************************************)
(* SpecMigrate: a credential moved to another name, by                     *)
(* POST /admin/credentials/{filename}/migrate and by POST /auth/callback   *)
(* after a completed flow.  Every awaited call of the handler is one step; *)
(* lastOp holds the request in flight.  Other requests change the health   *)
(* of records while it runs.                                               *)
(***************************************************************************)
Global == <<"global">>
EmptyTarget == <<>>
MigrateTargets == UserIds \cup {Global, EmptyTarget}

\* names in the pool: a global one and one under each user's prefix
MigrateNames == {<<"x">> \o Json} \cup {UserPrefix(u) \o <<"x">> \o Json : u \in UserIds}

\* filename.split("_", 2)[2] for a name that starts with "u_" and has a
\* second underscore; the name itself otherwise
migrate_base_name(filename) ==
    LET later == {k \in 3..Len(filename) : filename[k] = "_"}
    IN  IF StartsWith(filename, <<"u", "_">>) /\ later # {}
        THEN SubSeq(filename, (CHOOSE k \in later : \A j \in later : k <= j) + 1,
                    Len(filename))
        ELSE filename

\* admin_migrate_credential: the name the credential is moved to
migrate_new_filename(filename, target_user_id) ==
    IF target_user_id = Global \/ target_user_id = EmptyTarget
    THEN migrate_base_name(filename)
    ELSE <<"u", "_">> \o target_user_id \o <<"_">> \o migrate_base_name(filename)

\* the old name is removed before the new one is written
migrate_next_RemoveFirst(pc) ==
    CASE pc = "check" -> "remove"
      [] pc = "remove" -> "add"
      [] pc = "add" -> "done"

\* the order of the awaited calls: existence check, add_credential under
\* the new name, remove_credential of the old one
migrate_next(pc) ==
    CASE pc = "check" -> "add"
      [] pc = "add" -> "remove"
      [] pc = "remove" -> "done"

Migration(pc, filename, new_filename, cred_data, status) ==
    [op |-> "migrate", pc |-> pc, filename |-> filename,
     new_filename |-> new_filename, cred_data |-> cred_data, status |-> status]

InFlight == lastOp.op = "migrate" /\ lastOp.pc # "done"

\* requests that build the pool while no move is in flight
MigrateUpload == \E n \in MigrateNames, b \in SecretBlobs :
    /\ ~InFlight
    /\ credentials_cm' = add_credential(credentials_cm, n, b, now)
    /\ UNCHANGED <<config_cm, current_index, now, response, lastOp, notPool>>

MigrateSetDisabled == \E n \in MigrateNames, b \in BOOLEAN :
    /\ credentials_cm' = set_cred_disabled(credentials_cm, n, b, now)
    /\ UNCHANGED <<config_cm, current_index, now, response, lastOp, notPool>>

\* admin_migrate_credential up to its first write: 404 for a missing
\* credential
MigrateBegin == \E filename \in MigrateNames, target_user_id \in MigrateTargets :
    LET cred_data == get_credential(credentials_cm, filename)
    IN  /\ ~InFlight
        /\ lastOp' = IF cred_data \in {NoValue, EmptyCredential}
                     THEN Migration("done", filename, filename, NoValue, 404)
                     ELSE Migration("check", filename,
                                    migrate_new_filename(filename, target_user_id),
                                    cred_data, 0)
        /\ UNCHANGED <<credentials_cm, config_cm, current_index, now, response, notPool>>

\* 409 when the new name is taken
MigrateCheck ==
    LET existing == get_credential(credentials_cm, lastOp.new_filename)
    IN  /\ InFlight /\ lastOp.pc = "check"
        /\ lastOp' = IF existing \in {NoValue, EmptyCredential}
                     THEN [lastOp EXCEPT !.pc = migrate_next("check")]
                     ELSE [lastOp EXCEPT !.pc = "done", !.status = 409]
        /\ UNCHANGED <<credentials_cm, config_cm, current_index, now, response, notPool>>

\* auth_callback_endpoint after a successful completion: the saved
\* credential goes under the caller's prefix, with no test of the new name
CallbackMoveBegin == \E u \in UserIds :
    LET saved_filename == <<"x">> \o Json
        cred_data == get_credential(credentials_cm, saved_filename)
    IN  /\ ~InFlight
        /\ lastOp' = IF cred_data \in {NoValue, EmptyCredential}
                     THEN Migration("done", saved_filename, saved_filename, NoValue, 200)
                     ELSE Migration(migrate_next("check"), saved_filename,
                                    get_user_filename(u, saved_filename), cred_data, 0)
        /\ UNCHANGED <<credentials_cm, config_cm, current_index, now, response, notPool>>

MigrateAdd ==
    /\ InFlight /\ lastOp.pc = "add"
    /\ credentials_cm' = add_credential(credentials_cm, lastOp.new_filename,
                                        lastOp.cred_data, now)
    /\ lastOp' = [lastOp EXCEPT !.pc = migrate_next("add"),
                                !.status = IF migrate_next("add") = "done" THEN 200 ELSE 0]
    /\ UNCHANGED <<config_cm, current_index, now, response, notPool>>

MigrateRemove ==
    /\ InFlight /\ lastOp.pc = "remove"
    /\ credentials_cm' = remove_credential(credentials_cm, lastOp.filename)
    /\ lastOp' = [lastOp EXCEPT !.pc = migrate_next("remove"),
                                !.status = IF migrate_next("remove") = "done" THEN 200 ELSE 0]
    /\ UNCHANGED <<config_cm, current_index, now, response, notPool>>

MigrateNext ==
    \/ MigrateUpload
    \/ MigrateSetDisabled
    \/ MigrateBegin
    \/ MigrateCheck
    \/ CallbackMoveBegin
    \/ MigrateAdd
    \/ MigrateRemove

SpecMigrate == Init /\ [][MigrateNext]_vars

\* C26: while a move that found its credential is in flight, the blob it
\* read is stored under the old name or under the new one; when the move
\* ends with success the blob is stored under the new name and the old name
\* is gone
C26_MigrateKeepsSecret ==
    [][lastOp'.op = "migrate" =>
          LET m == lastOp'
          IN  /\ m.pc # "done" =>
                    \/ get_credential(credentials_cm', m.filename) = m.cred_data
                    \/ get_credential(credentials_cm', m.new_filename) = m.cred_data
              /\ (lastOp # lastOp' /\ m.pc = "done" /\ m.status = 200
                    /\ m.cred_data # NoValue)
                    => /\ get_credential(credentials_cm', m.new_filename) = m.cred_data
                       /\ ~cm_has(credentials_cm', m.filename)]_vars

\* a migration of one user's credential to the other user has ended with
\* success, next to a global credential with the other blob
C26_Witness ==
    \E a \in UserIds : \E b \in UserIds \ {a} :
        /\ lastOp.op = "migrate" /\ lastOp.pc = "done" /\ lastOp.status = 200
        /\ lastOp.filename = UserPrefix(a) \o <<"x">> \o Json
        /\ lastOp.new_filename = UserPrefix(b) \o <<"x">> \o Json
        /\ get_credential(credentials_cm, lastOp.new_filename) = "k2"
        /\ ~cm_has(credentials_cm, lastOp.filename)
        /\ get_credential(credentials_cm, <<"x">> \o Json) = "k1"



(***************************************************************************)
(* SpecLoad: the caches loaded by a fresh MySQLManager, with the outcome   *)
(* of each table's read recorded.                                          *)
(***************************************************************************)
\* the except clause is missing: a failed read leaves load_data by exception
load_data_raises_Uncaught(pool, read_ok) == ~pool \/ ~read_ok

\* MySQLCacheBackend.load_data wraps the read in try / except Exception and
\* returns {} from the handler: no exception leaves it
load_data_raises(pool, read_ok) == FALSE

\* MySQLManager.initialize of a fresh instance; an exception out of a load
\* would end it before any cache exists
InitializeRead == \E read_credentials, read_config \in BOOLEAN :
    LET raised == \/ load_data_raises(TRUE, read_credentials)
                  \/ load_data_raises(TRUE, read_config)
        reads == [credentials |-> read_credentials, config |-> read_config]
    IN  /\ ~db_pool
        /\ IF raised
           THEN UNCHANGED <<credentials_cm, config_cm, db_rows, db_pool, cache_sets>>
           ELSE /\ SetStorage(initialize(CurStorage, read_credentials, read_config))
                /\ cache_sets' = [T \in Tables |-> {}]
        /\ cache_log' =
             [event |-> IF raised THEN "initialize_failed" ELSE "initialize",
              table |-> "none", mem |-> MemOf(CurStorage), sets |-> cache_sets,
              written |-> cache_log.written, accepted |-> cache_log.accepted,
              loaded |-> read_credentials /\ read_config,
              retry |-> [T \in Tables |-> FALSE], wasRetry |-> FALSE,
              reads |-> reads]
        /\ UNCHANGED notCache

LoadNext ==
    \/ CacheSetKey
    \/ CacheDeleteKey
    \/ FlushTick
    \/ Close
    \/ InitializeRead

SpecLoad == Init /\ [][LoadNext]_vars

\* C27: the start of a fresh instance always completes; a table whose read
\* failed, or whose row is absent, starts with an empty cache that is not
\* dirty, and a table whose row was read serves the row
C27_LoadFailureEmpty ==
    cache_log.event \in {"initialize", "initialize_failed"} =>
        /\ cache_log.event = "initialize"
        /\ db_pool
        /\ \A T \in Tables :
              IF ~cache_log.reads[T] \/ ~db_rows[RowKey[T]].present
              THEN /\ cm_get_all(CurStorage[T]) = EmptyDict
                   /\ ~CurStorage[T].dirty
              ELSE cm_get_all(CurStorage[T]) = json_loads(db_rows[RowKey[T]].data)

\* a fresh instance started with a failed read of a table whose row holds a
\* key, and with the other table's row absent
C27_Witness ==
    /\ cache_log.event = "initialize"
    /\ \E T \in Tables :
          /\ ~cache_log.reads[T]
          /\ db_rows[RowKey[T]].present
          /\ json_loads(db_rows[RowKey[T]].data).keys # <<>>
          /\ \E U \in Tables \ {T} : ~db_rows[RowKey[U]].present



(***************************************************************************)
(* SpecSession: flows started and completed by two owner sessions          *)
(* (routers/auth.py passes the caller's user id as user_session).          *)
(***************************************************************************)
OwnerSessions == {"s1", "s2"}

\* the session each caller of complete_auth_flow acts for
CallerSession == [c \in Callers |-> IF c = "c1" THEN "s1" ELSE "s2"]

\* POST /auth/start
SessionStart == \E user_session \in OwnerSessions,
                   outcome \in {"ok", "server_failed", "flow_failed"} :
    CreateAuthUrlCall(NoValue, user_session, outcome) /\ UNCHANGED flow_result

\* POST /auth/callback up to the wait or the exchange
SessionLookup == \E c \in Callers :
    CompleteLookupCall(c, NoValue, CallerSession[c]) /\ UNCHANGED flow_result

SessionNext ==
    \/ SessionStart
    \/ AuthCallback
    \/ SessionLookup
    \/ CompleteWait
    \/ CompleteFinish

SpecSession == Init /\ [][SessionNext]_vars

\* C28: a completion that stores a credential does so from a flow that was
\* started with the session the completion was called with
C28_OwnSessionOnly ==
    [][\A c \in Callers :
          (/\ callers[c].phase = "exchange"
           /\ callers'[c].phase = "idle"
           /\ credentials_cm' # credentials_cm)
              => flow_objs[callers[c].state].user_session = CallerSession[c]]_vars



(***************************************************************************)
(* SpecRoles: the users table over time: public registration, deletion     *)
(* and the start of a UserManager over the existing table.                 *)
(***************************************************************************)
MaxUserIds == 4

AllUsernames == Usernames \cup {"admin"}

\* UserManager.create_admin_if_not_exists
create_admin_if_not_exists(U) ==
    IF ~U["admin"].present THEN register(U, "admin", "admin", "admin")
    ELSE IF U["admin"].role # "admin" THEN [U EXCEPT !["admin"].role = "admin"]
    ELSE U

\* UserManager.delete_user: the user's tokens, then the user's row; the
\* deleted row keeps the id so that no later row is given it again
delete_user(U, T, user_id) ==
    [users |-> [u \in DOMAIN U |->
                   IF U[u].present /\ U[u].id = user_id
                   THEN [NoUser EXCEPT !.id = user_id] ELSE U[u]],
     tokens |-> [k \in DOMAIN T |->
                    IF T[k].user_id = user_id THEN [T[k] EXCEPT !.removed = TRUE]
                    ELSE T[k]]]

\* the tables once UserManager has been initialized on an empty database
AccountIdle ==
    /\ users = create_admin_if_not_exists([u \in AllUsernames |-> NoUser])
    /\ tokens = <<>>
    /\ auth_resp = NoAuthResp

AccountInit == PoolInit /\ IsoIdle /\ ConcIdle /\ CacheIdle /\ FlowIdle /\ AccountIdle
               /\ StatsIdle /\ WsIdle

\* POST /auth/register
RolesRegister == \E username \in AllUsernames, password \in Passwords :
    /\ FreshUserId(users) <= MaxUserIds
    /\ users' = register(users, username, password, "user")
    /\ auth_resp' = [NoAuthResp EXCEPT !.op = "register", !.username = username,
                        !.password = password,
                        !.status = IF users[username].present THEN 400 ELSE 200]
    /\ UNCHANGED <<tokens, notUser>>

DeleteUser == \E username \in AllUsernames :
    LET deleted == delete_user(users, tokens, users[username].id)
    IN  /\ users[username].present
        /\ users' = deleted.users
        /\ tokens' = deleted.tokens
        /\ auth_resp' = [NoAuthResp EXCEPT !.op = "delete_user", !.username = username,
                            !.user_id = users[username].id]
        /\ UNCHANGED notUser

\* _init_mysql_pool of a restarted process
Reinitialize ==
    /\ users["admin"].present \/ FreshUserId(users) <= MaxUserIds
    /\ users' = create_admin_if_not_exists(users)
    /\ auth_resp' = [NoAuthResp EXCEPT !.op = "initialize"]
    /\ UNCHANGED <<tokens, notUser>>

RolesNext ==
    \/ RolesRegister
    \/ DeleteUser
    \/ Reinitialize
    \/ UpdateUserStatus

SpecRoles == AccountInit /\ [][RolesNext]_vars

\* C31: a row inserted by the public registration, that is with the role
\* "user", never has the role "admin"
C31_RegisteredNeverAdmin ==
    \A u \in AllUsernames :
        (users[u].present /\ users[u].created_as = "user") => users[u].role # "admin"



(***************************************************************************)
(* SpecAdmin: the users and tokens tables under the account routes, on a *)
(* clock that reaches the expiry of both kinds of token.  Every request    *)
(* records itself in auth_resp.                                            *)
(***************************************************************************)
IMPERSONATE_TTL == 3600

\* the instants of the clock: the start, and the expiry of tokens issued at
\* an earlier instant
ClockTimes == {0, IMPERSONATE_TTL, TOKEN_TTL, TOKEN_TTL + IMPERSONATE_TTL}

AccountIds == 1..MaxUserIds

RowOfId(U, user_id) == {u \in DOMAIN U : U[u].present /\ U[u].id = user_id}

\* UserManager.get_user_role
get_user_role(U, user_id) ==
    IF RowOfId(U, user_id) = {} THEN "user"
    ELSE U[CHOOSE u \in RowOfId(U, user_id) : TRUE].role

require_admin_AnyRole(U, T, token, t) ==
    IF verify_token(U, T, token, t) = 0 THEN 401
    ELSE 200

\* the dependency chain get_current_user_id, get_current_user_role,
\* require_admin: the status the request is answered with, 200 for passed
require_admin(U, T, token, t) ==
    IF verify_token(U, T, token, t) = 0 THEN 401
    ELSE IF get_user_role(U, verify_token(U, T, token, t)) # "admin" THEN 403
    ELSE 200

\* UserManager.update_user_status(user_id, disabled=...)
update_user_status(U, user_id, disabled) ==
    [u \in DOMAIN U |->
        IF U[u].present /\ U[u].id = user_id THEN [U[u] EXCEPT !.disabled = disabled]
        ELSE U[u]]

\* UserManager.impersonate_user: the tokens table after the call
impersonate_user(U, T, user_id, t) ==
    IF RowOfId(U, user_id) = {} THEN T
    ELSE Append(T, TokenRow(user_id, t + IMPERSONATE_TTL))

logout_KeepsRow(T, token) == T

\* UserManager.logout
logout(T, token) ==
    IF token \in 1..Len(T) THEN [T EXCEPT ![token].removed = TRUE] ELSE T

\* UserManager.get_user_by_api_key with the key register gave the row of
\* this username: the user id, or 0 for None
get_user_by_api_key(U, username) ==
    IF ~U[username].present THEN 0
    ELSE IF U[username].disabled THEN 0
    ELSE U[username].id

\* POST /auth/register
AccountRegister == \E username \in {"user1"} :
    /\ FreshUserId(users) <= MaxUserIds
    /\ users' = register(users, username, "password123", "user")
    /\ auth_resp' = [NoAuthResp EXCEPT !.op = "register",
                        !.status = IF users[username].present THEN 400 ELSE 200]
    /\ UNCHANGED <<tokens, notUser>>

\* POST /auth/login
AccountLogin == \E username \in {"admin", "user1"}, password \in {"password123", "admin"} :
    LET called == user_manager_login(users, tokens, username, password, now)
    IN  /\ Len(tokens) < MaxLogins
        /\ tokens' = called.tokens
        /\ auth_resp' = [NoAuthResp EXCEPT !.op = "login", !.username = username,
                            !.password = password,
                            !.status = login_status(called.result)]
        /\ UNCHANGED <<users, notUser>>

\* POST /admin/users/{user_id}/status
AdminUpdateUserStatus == \E token \in 1..MaxLogins, user_id \in AccountIds, disabled \in BOOLEAN :
    LET status == require_admin(users, tokens, token, now)
    IN  /\ users' = IF status = 200 THEN update_user_status(users, user_id, disabled)
                    ELSE users
        /\ tokens' = verify_token_tokens(users, tokens, token, now)
        /\ auth_resp' = [NoAuthResp EXCEPT !.op = "admin_update_user_status",
                            !.token = token, !.user_id = user_id, !.status = status]
        /\ UNCHANGED notUser

\* POST /admin/users/{user_id}/impersonate
AdminImpersonateUser == \E token \in 1..MaxLogins, user_id \in AccountIds :
    LET status == require_admin(users, tokens, token, now)
        checked == verify_token_tokens(users, tokens, token, now)
    IN  /\ Len(tokens) < MaxLogins
        /\ tokens' = IF status = 200 THEN impersonate_user(users, checked, user_id, now)
                     ELSE checked
        /\ auth_resp' = [NoAuthResp EXCEPT !.op = "admin_impersonate_user",
                            !.status = IF status # 200 THEN status
                                       ELSE IF RowOfId(users, user_id) = {} THEN 404
                                       ELSE 200]
        /\ UNCHANGED <<users, notUser>>

\* DELETE /admin/users/{target_user_id}
AdminDeleteUser == \E token \in 1..MaxLogins, user_id \in AccountIds :
    LET status == require_admin(users, tokens, token, now)
        checked == verify_token_tokens(users, tokens, token, now)
        deleted == delete_user(users, checked, user_id)
    IN  /\ users' = IF status = 200 THEN deleted.users ELSE users
        /\ tokens' = IF status = 200 THEN deleted.tokens ELSE checked
        /\ auth_resp' = [NoAuthResp EXCEPT !.op = "admin_delete_user",
                            !.token = token, !.user_id = user_id, !.status = status]
        /\ UNCHANGED notUser

\* a request through get_current_user_id
AccountRequest == \E token \in 1..MaxLogins :
    LET user_id == verify_token(users, tokens, token, now)
    IN  /\ auth_resp' = [NoAuthResp EXCEPT !.op = "request", !.token = token,
                            !.user_id = user_id,
                            !.status = IF user_id = 0 THEN 401 ELSE 200]
        /\ tokens' = verify_token_tokens(users, tokens, token, now)
        /\ UNCHANGED <<users, notUser>>

AccountLogout == \E token \in 1..MaxLogins :
    /\ tokens' = logout(tokens, token)
    /\ auth_resp' = [NoAuthResp EXCEPT !.op = "logout", !.token = token]
    /\ UNCHANGED <<users, notUser>>

\* the clock moves on by d seconds
ClockTick(d) ==
    /\ now + d \in ClockTimes
    /\ now' = now + d
    /\ auth_resp' = [NoAuthResp EXCEPT !.op = "tick"]
    /\ UNCHANGED <<credentials_cm, config_cm, current_index, response, lastOp,
                   users, tokens, isoVars, concVars, cacheVars, flowVars, statsVars, wsVars>>

DayTick == ClockTick(TOKEN_TTL)

AdminNext ==
    \/ AccountRegister
    \/ AccountLogin
    \/ AdminUpdateUserStatus
    \/ AdminDeleteUser
    \/ DayTick

SpecAdmin == AccountInit /\ [][AdminNext]_vars


AdminOps == {"admin_update_user_status", "admin_delete_user"}

\* the token is a row of the tokens table, not expired, of an enabled user
CallerVerifies(k) ==
    /\ k \in 1..Len(tokens)
    /\ ~tokens[k].removed
    /\ now < tokens[k].expires_at
    /\ \E u \in AllUsernames :
          users[u].present /\ users[u].id = tokens[k].user_id /\ ~users[u].disabled

CallerIsAdmin(k) ==
    /\ CallerVerifies(k)
    /\ \E u \in AllUsernames :
          users[u].present /\ users[u].id = tokens[k].user_id /\ users[u].role = "admin"

AdminStep == auth_resp'.op \in AdminOps

TokensKeptExcept(k) ==
    /\ Len(tokens') = Len(tokens)
    /\ \A j \in 1..Len(tokens) : j # k => tokens'[j] = tokens[j]

\* C32: an admin route is answered 200 exactly when the bearer token is that
\* of an enabled admin at the call; every other call is answered 401 (the
\* token does not verify) or 403 (not an admin) and changes no table, except
\* that verify_token deletes the presented token when it has expired
C32_AdminOnly ==
    [][AdminStep =>
        IF CallerIsAdmin(auth_resp'.token) THEN auth_resp'.status = 200
        ELSE /\ auth_resp'.status = IF CallerVerifies(auth_resp'.token) THEN 403 ELSE 401
             /\ users' = users
             /\ TokensKeptExcept(auth_resp'.token)]_vars

\* C32 as stated: a rejected call changes no state at all
C32_RejectedChangesNothing ==
    [][(AdminStep /\ ~CallerIsAdmin(auth_resp'.token)) =>
        /\ auth_resp'.status \in {401, 403}
        /\ users' = users
        /\ tokens' = tokens]_vars

\* an admin's call has disabled a user
C32_Witness ==
    /\ auth_resp.op = "admin_update_user_status"
    /\ auth_resp.status = 200
    /\ \E u \in AllUsernames : users[u].present /\ users[u].disabled /\ users[u].role = "user"


(***************************************************************************)
(* SpecDisable: accounts that are disabled and enabled again while their   *)
(* passwords, tokens and API keys are presented.                           *)
(***************************************************************************)
authenticate_DisabledKeyAccepted(U, username) ==
    IF U[username].present THEN [type |-> "user", user_id |-> U[username].id]
    ELSE [type |-> "oauth", user_id |-> 0]

\* authenticate of routers/gemini.py on the API key of this username's row:
\* a key that resolves to no user is passed through as an OAuth token
authenticate(U, username) ==
    IF get_user_by_api_key(U, username) # 0
    THEN [type |-> "user", user_id |-> get_user_by_api_key(U, username)]
    ELSE [type |-> "oauth", user_id |-> 0]

\* a Gemini route called with the API key of the row; the answer is recorded
\* as the user id the request runs as, 0 for an "oauth" request
ApiKeyRequest == \E username \in {"admin", "user1"} :
    /\ users[username].present
    /\ auth_resp' = [NoAuthResp EXCEPT !.op = "authenticate", !.username = username,
                        !.user_id = authenticate(users, username).user_id,
                        !.status = 200]
    /\ UNCHANGED <<users, tokens, notUser>>

DisableNext ==
    \/ AccountRegister
    \/ AccountLogin
    \/ UpdateUserStatus
    \/ AccountRequest
    \/ ApiKeyRequest
    \/ DayTick

SpecDisable == AccountInit /\ [][DisableNext]_vars

OwnerOf(k) == {u \in AllUsernames : users[u].present /\ users[u].id = tokens[k].user_id}

LiveToken(k) ==
    /\ k \in 1..Len(tokens)
    /\ ~tokens[k].removed
    /\ now < tokens[k].expires_at

\* C33: for a disabled user a login with the right password issues no token
\* and is not answered 200, a request with one of the user's tokens is
\* answered 401 and leaves the token in the table, and a request with the
\* user's API key does not run as that user; when the user is enabled again
\* every unexpired token of the user verifies
C33_DisabledLockedOut ==
    [][/\ (/\ auth_resp'.op = "login"
           /\ users' = users
           /\ RowMatches(users, auth_resp'.username, auth_resp'.password)
           /\ users[auth_resp'.username].disabled)
          => (auth_resp'.status # 200 /\ tokens' = tokens)
       /\ (/\ auth_resp'.op = "request"
           /\ users' = users /\ now' = now
           /\ auth_resp'.token \in 1..Len(tokens)
           /\ \E u \in OwnerOf(auth_resp'.token) : users[u].disabled)
          => (auth_resp'.status = 401 /\ auth_resp'.user_id = 0 /\ tokens' = tokens)
       /\ (/\ auth_resp'.op = "authenticate"
           /\ users' = users
           /\ users[auth_resp'.username].disabled)
          => auth_resp'.user_id = 0
       /\ \A k \in 1..Len(tokens) : \A u \in OwnerOf(k) :
             (users[u].disabled /\ ~users'[u].disabled /\ LiveToken(k))
                => verify_token(users', tokens', k, now') = users[u].id]_vars

\* a request with a live token of a disabled user has been answered 401
C33_Witness ==
    /\ auth_resp.op = "request"
    /\ auth_resp.status = 401
    /\ LiveToken(auth_resp.token)
    /\ \E u \in OwnerOf(auth_resp.token) : users[u].disabled


(***************************************************************************)
(* SpecTokens: tokens issued by login, impersonation and                   *)
(* create_user_token, then presented, logged out, expired, or deleted      *)
(* with their user.                                                        *)
(***************************************************************************)
\* UserManager.create_user_token: the INSERT is refused by the foreign key
\* when no user has the id
create_user_token(U, T, user_id, t) ==
    IF RowOfId(U, user_id) = {} THEN T
    ELSE Append(T, TokenRow(user_id, t + TOKEN_TTL))

CreateUserToken == \E user_id \in AccountIds :
    /\ Len(tokens) < MaxLogins
    /\ tokens' = create_user_token(users, tokens, user_id, now)
    /\ auth_resp' = [NoAuthResp EXCEPT !.op = "create_user_token"]
    /\ UNCHANGED <<users, notUser>>

TokensNext ==
    \/ AccountRegister
    \/ AccountLogin
    \/ AdminImpersonateUser
    \/ CreateUserToken
    \/ AccountRequest
    \/ AccountLogout
    \/ DeleteUser
    \/ DayTick

SpecTokens == AccountInit /\ [][TokensNext]_vars

\* the last call was logout(k), or delete_user of the user token k was issued for
TokenGone(k) ==
    /\ k \in 1..Len(tokens)
    /\ \/ auth_resp.op = "logout" /\ auth_resp.token = k
       \/ auth_resp.op = "delete_user" /\ auth_resp.user_id = tokens[k].user_id

\* C34: a request is answered as a user only with a token that is in the
\* table, was issued for that user and has not expired; once logout(k) or
\* delete_user of its owner has run, token k never verifies again
C34_TokenLifetime ==
    /\ []((auth_resp.op = "request" /\ auth_resp.status = 200)
            => /\ LiveToken(auth_resp.token)
               /\ auth_resp.user_id = tokens[auth_resp.token].user_id
               /\ OwnerOf(auth_resp.token) # {})
    /\ \A k \in 1..MaxLogins :
          [](TokenGone(k) => [](verify_token(users, tokens, k, now) = 0))

\* token k verified, and then logout(k) ran
C34_Witness ==
    /\ auth_resp.op = "logout"
    /\ auth_resp.token \in 1..Len(tokens)
    /\ tokens[auth_resp.token].removed
    /\ now < tokens[auth_resp.token].expires_at
    /\ OwnerOf(auth_resp.token) # {}


(***************************************************************************)
(* SpecRace: two requests of POST /admin/credentials/{filename}/migrate    *)
(* in flight at once.  Every awaited call of a handler is one step;        *)
(* lastOp holds both requests.  Uploads build the pool while neither is    *)
(* in flight.                                                              *)
(***************************************************************************)
IdleMigration == Migration("done", <<>>, <<>>, NoValue, 0)

\* the request of task t
Race(t) == IF lastOp.op = "migrations" THEN lastOp.tasks[t] ELSE IdleMigration

RaceSet(t, m) ==
    lastOp' = [op |-> "migrations",
               tasks |-> [u \in Tasks |-> IF u = t THEN m ELSE Race(u)]]

RaceUpload == \E n \in MigrateNames, b \in SecretBlobs :
    /\ \A t \in Tasks : Race(t).pc = "done"
    /\ credentials_cm' = add_credential(credentials_cm, n, b, now)
    /\ UNCHANGED <<config_cm, current_index, now, response, lastOp, notPool>>

RaceBegin == \E t \in Tasks, filename \in MigrateNames, target_user_id \in MigrateTargets :
    LET cred_data == get_credential(credentials_cm, filename)
    IN  /\ Race(t).pc = "done"
        /\ RaceSet(t, IF cred_data \in {NoValue, EmptyCredential}
                      THEN Migration("done", filename, filename, NoValue, 404)
                      ELSE Migration("check", filename,
                                     migrate_new_filename(filename, target_user_id),
                                     cred_data, 0))
        /\ UNCHANGED <<credentials_cm, config_cm, current_index, now, response, notPool>>

RaceCheck == \E t \in Tasks :
    LET existing == get_credential(credentials_cm, Race(t).new_filename)
    IN  /\ Race(t).pc = "check"
        /\ RaceSet(t, IF existing \in {NoValue, EmptyCredential}
                      THEN [Race(t) EXCEPT !.pc = migrate_next("check")]
                      ELSE [Race(t) EXCEPT !.pc = "done", !.status = 409])
        /\ UNCHANGED <<credentials_cm, config_cm, current_index, now, response, notPool>>

RaceAdd == \E t \in Tasks :
    /\ Race(t).pc = "add"
    /\ credentials_cm' = add_credential(credentials_cm, Race(t).new_filename,
                                        Race(t).cred_data, now)
    /\ RaceSet(t, [Race(t) EXCEPT !.pc = migrate_next("add")])
    /\ UNCHANGED <<config_cm, current_index, now, response, notPool>>

RaceRemove == \E t \in Tasks :
    /\ Race(t).pc = "remove"
    /\ credentials_cm' = remove_credential(credentials_cm, Race(t).filename)
    /\ RaceSet(t, [Race(t) EXCEPT !.pc = migrate_next("remove"), !.status = 200])
    /\ UNCHANGED <<config_cm, current_index, now, response, notPool>>

RaceNext ==
    \/ RaceUpload
    \/ RaceBegin
    \/ RaceCheck
    \/ RaceAdd
    \/ RaceRemove

SpecRace == Init /\ [][RaceNext]_vars

\* C35: the add_credential of a migration never replaces the secret stored
\* under a name that is in the pool
C35_NeverOverwrites ==
    [][\A t \in Tasks :
          (lastOp.op = "migrations" /\ lastOp'.op = "migrations"
             /\ lastOp.tasks[t].pc = "add" /\ lastOp'.tasks[t].pc # "add"
             /\ cm_has(credentials_cm, lastOp.tasks[t].new_filename))
            => get_credential(credentials_cm', lastOp.tasks[t].new_filename)
                  = get_credential(credentials_cm, lastOp.tasks[t].new_filename)]_vars


(***************************************************************************)
(* SpecStats: UsageStats over the credentials table.  Calls are recorded,  *)
(* counted and reset while credentials are uploaded and removed and the    *)
(* clock passes the save interval and the 24 hour window.  Timestamps are  *)
(* seconds; the latency history is left out.                               *)
(***************************************************************************)
MaxCacheSize == 2     \* UsageStats._max_cache_size (100 in the source)
MaxStatCalls == 2     \* calls recorded per key
SAVE_INTERVAL == 60
DAY == 86400
PROCESS_START == 86400    \* time.time() when the process starts

StatsTimes == {0, SAVE_INTERVAL, DAY}

stats_time(t) == PROCESS_START + t

\* min(cache.keys(), key=len of the timestamps): the first key, in insertion
\* order, with the fewest timestamps
oldest_key(C) ==
    LET fewest(i) == \A j \in 1..Len(C.keys) : Len(C.val[C.keys[i]]) <= Len(C.val[C.keys[j]])
    IN  C.keys[CHOOSE i \in 1..Len(C.keys) :
                  fewest(i) /\ \A j \in 1..(i - 1) : ~fewest(j)]

\* UsageStats._get_or_create_stats: the cache after the call
_get_or_create_stats(C, key) ==
    IF DictHas(C, key) THEN C
    ELSE DictSet(IF Len(C.keys) >= MaxCacheSize THEN DictDel(C, oldest_key(C)) ELSE C,
                 key, <<>>)

\* UsageStats._cleanup_old_timestamps
_cleanup_old_timestamps(timestamps, t) ==
    SelectSeq(timestamps, LAMBDA ts : ts > stats_time(t) - DAY)

\* update_stats of record_successful_call on the entry of key
update_stats(C, key, t) ==
    LET C1 == _get_or_create_stats(C, key)
    IN  DictSet(C1, key, Append(_cleanup_old_timestamps(C1.val[key], t), stats_time(t)))

\* the cache after the locked part of record_successful_call
record_successful_call(C, filename, user_id, t) ==
    IF user_id = NoValue THEN update_stats(C, filename, t)
    ELSE update_stats(update_stats(C, filename, t), user_key(user_id), t)

\* MySQLManager.update_usage_stats
update_usage_stats(cm, filename, call_timestamps, t) ==
    LET existing_data ==
            IF cm_has(cm, filename) THEN cm.val[filename]
            ELSE [credential |-> EmptyCredential,
                  state |-> _get_default_state(t),
                  stats |-> _get_default_stats]
    IN  cm_set(cm, filename,
               [existing_data EXCEPT !.stats = [call_timestamps |-> call_timestamps]])

\* the guard of UsageStats._save_stats
save_due(dirty, last, t) == dirty /\ ~(stats_time(t) - last < SAVE_INTERVAL)

\* the loop of _save_stats over the first n keys of the cache; the writes of
\* the keys in failed return False
RECURSIVE save_entries(_, _, _, _, _)
save_entries(cm, C, n, failed, t) ==
    IF n = 0 THEN cm
    ELSE LET before == save_entries(cm, C, n - 1, failed, t)
             key == C.keys[n]
         IN  IF key \in failed THEN before
             ELSE update_usage_stats(before, key, C.val[key], t)

\* _cache_dirty after a save that ran
dirty_after_save(failed) == FALSE

\* UsageStats._save_stats on the cache C, as part of the call op
SaveStats(op, filename, calls_24h, C, dirty, failed, calls) ==
    LET due == save_due(dirty, last_save_time, now)
        lost == failed \cap Range(C.keys)
    IN  /\ stats_cache' = C
        /\ credentials_cm' = IF due THEN save_entries(credentials_cm, C, Len(C.keys), lost, now)
                             ELSE credentials_cm
        /\ cache_dirty' = IF due THEN dirty_after_save(lost) ELSE dirty
        /\ last_save_time' = IF due THEN stats_time(now) ELSE last_save_time
        /\ stats_log' = StatsCall(op, filename, calls_24h, due, IF due THEN lost ELSE {}, calls)

StatsUpload == \E n \in {"A"} :
    /\ credentials_cm' = add_credential(credentials_cm, n, "k1", now)
    /\ UNCHANGED <<statsVars, now, notStats>>

StatsRemove == \E n \in {"A"} :
    /\ credentials_cm' = remove_credential(credentials_cm, n)
    /\ UNCHANGED <<statsVars, now, notStats>>

\* UsageStats.record_successful_call for a credential of the table
RecordCall(filename, user_id, failed) ==
    LET C == record_successful_call(stats_cache, filename, user_id, now)
    IN  /\ cm_has(credentials_cm, filename)
        /\ Len(stats_log.calls[filename]) < MaxStatCalls
        /\ \A k \in Range(C.keys) : Len(C.val[k]) <= MaxStatCalls
        /\ SaveStats("record", filename, 0, C, TRUE, failed,
                     [stats_log.calls EXCEPT ![filename] = Append(@, stats_time(now))])
        /\ UNCHANGED <<now, notStats>>

\* UsageStats.get_usage_stats(filename)
GetUsageStats == \E filename \in CredNames :
    LET C1 == _get_or_create_stats(stats_cache, filename)
        kept == _cleanup_old_timestamps(C1.val[filename], now)
    IN  /\ stats_cache' = DictSet(C1, filename, kept)
        /\ cache_dirty' = (cache_dirty \/ C1 # stats_cache \/ kept # C1.val[filename])
        /\ stats_log' = StatsCall("get", filename, Len(kept), FALSE, {}, stats_log.calls)
        /\ UNCHANGED <<credentials_cm, last_save_time, now, notStats>>

\* UsageStats.reset_stats(filename)
ResetStats == \E filename \in CredNames :
    LET has == DictHas(stats_cache, filename)
    IN  /\ SaveStats("reset", filename, 0,
                     IF has THEN DictSet(stats_cache, filename, <<>>) ELSE stats_cache,
                     cache_dirty \/ has, {},
                     [stats_log.calls EXCEPT ![filename] = <<>>])
        /\ UNCHANGED <<now, notStats>>

StatsClock(d) ==
    /\ now + d \in StatsTimes
    /\ now' = now + d
    /\ UNCHANGED <<credentials_cm, statsVars, notStats>>

\* calls of one credential, with and without a user, whose writes may fail
StatsRecord == \E user_id \in {NoValue, "u1"}, failed \in {{}, {"A"}} :
    RecordCall("A", user_id, failed)

MinuteTick == StatsClock(SAVE_INTERVAL)

StatsNext ==
    \/ StatsUpload
    \/ StatsRemove
    \/ StatsRecord
    \/ MinuteTick

SpecStats == Init /\ [][StatsNext]_vars


\* C36: a call whose save ran leaves list_credentials with the names it had
C36_SaveAddsNoName ==
    [][(stats_log' # stats_log /\ stats_log'.saved)
          => Range(list_credentials(credentials_cm')) = Range(list_credentials(credentials_cm))]_vars

\* C38: after a save in which the write of an entry failed the cache is
\* still marked dirty
C38_DirtyUntilPersisted ==
    (stats_log.saved /\ stats_log.failed # {}) => cache_dirty


(***************************************************************************)
(* SpecWindow: the 24 hour counts of two credentials, read while calls of  *)
(* one of them are recorded, counts are reset and a day passes.            *)
(***************************************************************************)
WindowUpload == \E n \in CredNames :
    /\ ~cm_has(credentials_cm, n)
    /\ credentials_cm' = add_credential(credentials_cm, n, "k1", now)
    /\ UNCHANGED <<statsVars, now, notStats>>

WindowRecord == \E user_id \in {NoValue, "u1"} : RecordCall("A", user_id, {})

WindowDayTick == StatsClock(DAY)

WindowNext ==
    \/ WindowUpload
    \/ WindowRecord
    \/ GetUsageStats
    \/ ResetStats
    \/ WindowDayTick

SpecWindow == Init /\ [][WindowNext]_vars

\* the calls recorded for the credential since its last reset that are less
\* than 24 hours old at t
InWindow(filename, t) ==
    {i \in 1..Len(stats_log.calls[filename]) :
        stats_log.calls[filename][i] > stats_time(t) - DAY}

\* C37: get_usage_stats reports for a credential the number of calls
\* recorded for it since its last reset that are less than 24 hours old
C37_CountIsWindow ==
    [][(stats_log'.op = "get" /\ now' = now /\ credentials_cm' = credentials_cm)
          => stats_log'.calls_24h = Cardinality(InWindow(stats_log'.filename, now))]_vars


(***************************************************************************)
(* SpecWs: the log stream WebSockets and the ConnectionManager.  Every     *)
(* awaited call of websocket_logs is one step, so that the handlers of     *)
(* several sockets interleave.                                             *)
(***************************************************************************)
MAX_CONNECTIONS == 3

\* cleanup_dead_connections
cleanup_dead_connections(active, S) ==
    SelectSeq(active, LAMBDA w : S[w].client_state # "DISCONNECTED")

\* deque(maxlen=max_connections).append: a full deque drops its oldest item
deque_append(active, w) ==
    IF Len(active) >= MAX_CONNECTIONS THEN Append(Tail(active), w)
    ELSE Append(active, w)

\* ConnectionManager.disconnect: a socket that is not in the deque is ignored
disconnect(active, w) == Remove(active, w)

\* ConnectionManager.connect up to "await websocket.accept()"; the cleanup
\* runs when its interval has passed
WsConnectBegin == \E w \in Sockets, cleanup_due \in BOOLEAN :
    LET active == IF cleanup_due THEN cleanup_dead_connections(active_connections, sockets)
                  ELSE active_connections
    IN  /\ sockets[w].pc = "new"
        /\ active_connections' = active
        /\ sockets' = [sockets EXCEPT ![w].pc =
                          IF Len(active) >= MAX_CONNECTIONS THEN "rejected" ELSE "accepting"]
        /\ UNCHANGED notWs

\* connect after the accept: the socket is registered
WsConnectAccept == \E w \in Sockets :
    /\ sockets[w].pc = "accepting"
    /\ active_connections' = deque_append(active_connections, w)
    /\ sockets' = [sockets EXCEPT ![w].pc = "auth"]
    /\ UNCHANGED notWs

\* the first try block of websocket_logs: a missing or invalid token, or a
\* caller that is no admin, closes the socket and returns
WsAuthenticate == \E w \in Sockets, ok \in BOOLEAN :
    /\ sockets[w].pc = "auth"
    /\ sockets' = [sockets EXCEPT ![w].pc = IF ok THEN "streaming" ELSE "ended"]
    /\ UNCHANGED <<active_connections, notWs>>

\* the client goes away: the listener task ends and the loop is left
WsClientGone == \E w \in Sockets :
    /\ sockets[w].pc = "streaming"
    /\ sockets' = [sockets EXCEPT ![w] = [pc |-> "closing", client_state |-> "DISCONNECTED"]]
    /\ UNCHANGED <<active_connections, notWs>>

\* the finally clause of the second try block
WsFinally == \E w \in Sockets :
    /\ sockets[w].pc = "closing"
    /\ active_connections' = disconnect(active_connections, w)
    /\ sockets' = [sockets EXCEPT ![w].pc = "ended"]
    /\ UNCHANGED notWs

WsNext ==
    \/ WsConnectBegin
    \/ WsConnectAccept
    \/ WsAuthenticate
    \/ WsClientGone
    \/ WsFinally

SpecWs == Init /\ [][WsNext]_vars

\* C39: the active set never holds more than max_connections sockets, a
\* connect on a full manager leaves it unchanged, and a registered socket
\* whose client is connected leaves the set only by a step of its own handler
C39_NoConnectionDropped ==
    [][/\ Len(active_connections') <= MAX_CONNECTIONS
       /\ \A w \in Sockets :
             (sockets'[w].pc = "rejected" /\ sockets[w].pc = "new"
                /\ Len(active_connections) >= MAX_CONNECTIONS)
               => active_connections' = active_connections
       /\ \A w \in Range(active_connections) :
             (sockets[w].client_state = "CONNECTED" /\ sockets'[w] = sockets[w])
               => w \in Range(active_connections')]_vars

\* C40: a socket whose handler has ended is not in the active set
C40_EndedNotActive ==
    \A w \in Sockets : sockets[w].pc = "ended" => w \notin Range(active_connections)

=============================================================================
